---- MODULE Spec2Model ----
(***************************************************************************)
(* Goal & Contribution Planning Engine of Hum_Safar_Hai:                   *)
(* backend/src/agents/goal_investment_strategy_agent.py,                   *)
(* class GoalInvestmentStrategyAgent.                                      *)
(*                                                                         *)
(* Amounts are Python floats in the source.  They are modelled as exact    *)
(* rationals <<n, d>> (d > 0, lowest terms), in units of 1000 rupees, so   *)
(* that x / (k+1) and x * pct are the quotient and the product and not a   *)
(* truncation.  A logarithm is kept as the term the code evaluates         *)
(* (log(arg) / log(base)): equal terms are equal months.                   *)
(***************************************************************************)
EXTENDS Integers, Sequences, FiniteSets, TLC

VARIABLES
    male_total,                  \* income - expenses of the male partner (line 104)
    female_total,                \* income - expenses of the female partner (line 105)
    male_monthly_contribution,   \* self.male_monthly_contribution: unpledged remainder
    female_monthly_contribution, \* self.female_monthly_contribution
    total_monthly_contribution,  \* self.total_monthly_contribution
    goals,                       \* self.goals, a list of goal dicts
    final_discussion,            \* self.final_discussion; [present |-> FALSE]: attribute not set
    ASSETS,                      \* self.ASSETS, the catalog with the held instruments
    file,                        \* the document at goals_file_path
    lastCall                     \* the last tool call: its name, arguments and return
                                 \* value, and whether it repeats the call before it

vars == << male_total, female_total, male_monthly_contribution,
           female_monthly_contribution, total_monthly_contribution, goals,
           final_discussion, ASSETS, file, lastCall >>

----------------------------------------------------------------------------
(* Bounds of the model *)

\* commit_goal is not offered once the store holds this many goals
MaxGoals == 5

----------------------------------------------------------------------------
(* Exact rational arithmetic for the float amounts *)

Abs(x) == IF x < 0 THEN -x ELSE x

RECURSIVE GCD(_, _)
GCD(a, b) == IF b = 0 THEN a ELSE GCD(b, a % b)

Lowest(n, d, g) == << n \div g, d \div g >>

\* n / d in lowest terms with a positive denominator
Rat(n, d) ==
    Lowest(IF d < 0 THEN -n ELSE n, Abs(d), GCD(Abs(n), Abs(d)))

R(n) == << n, 1 >>
Zero == R(0)
One == R(1)

\* over the least common denominator, to keep the products small
AddOver(x, y, g) ==
    Rat(x[1] * (y[2] \div g) + y[1] * (x[2] \div g), x[2] * (y[2] \div g))
RAdd(x, y) == AddOver(x, y, GCD(x[2], y[2]))
RSub(x, y) == RAdd(x, << -y[1], y[2] >>)
RMul(x, y) == Rat(x[1] * y[1], x[2] * y[2])
RDiv(x, y) == Rat(x[1] * y[2], x[2] * y[1])
RLe(x, y) == RSub(x, y)[1] <= 0
RLt(x, y) == RSub(x, y)[1] < 0

RECURSIVE RSum(_)
RSum(s) == IF s = << >> THEN Zero ELSE RAdd(Head(s), RSum(Tail(s)))

RECURSIVE SelectSeqIdx(_, _)
\* the elements of s at which keep is TRUE, in order
SelectSeqIdx(s, keep) ==
    IF s = << >> THEN << >>
    ELSE (IF Head(keep) THEN << Head(s) >> ELSE << >>)
         \o SelectSeqIdx(Tail(s), Tail(keep))

----------------------------------------------------------------------------
(* Python floats are IEEE-754 binary64.  Where the rounding of a result is
   what is asked, the arithmetic is done on binary64 values: a significand of
   53 bits, kept as a natural number in limbs, and an exponent of two.
   Naturals are little-endian sequences of limbs below Limb, with no zero
   limb at the top; << >> is zero. *)

LimbBits == 14
Limb == 2^LimbBits

\* x without its high zero limbs
TopLimb(x) ==
    CHOOSE i \in 1..Len(x) : x[i] # 0 /\ \A j \in (i + 1)..Len(x) : x[j] = 0
NatNorm(x) ==
    IF x = << >> \/ \A i \in 1..Len(x) : x[i] = 0 THEN << >>
    ELSE SubSeq(x, 1, TopLimb(x))

NatOf(n) == NatNorm(<< n % Limb, (n \div Limb) % Limb, n \div (Limb * Limb) >>)

LimbAt(x, i) == IF i <= Len(x) THEN x[i] ELSE 0

\* x + y by columns.  Column i is x[i] + y[i]; the carry into it comes from
\* the nearest lower column that is not Limb - 1, and is 1 when that column
\* is Limb or more.
NatColumns(x, y, n) == [i \in 1..n |-> LimbAt(x, i) + LimbAt(y, i)]
CarryInto(s, i) ==
    IF \A j \in 1..(i - 1) : s[j] = Limb - 1 THEN 0
    ELSE IF s[i - (CHOOSE d \in 1..(i - 1) : s[i - d] # Limb - 1)] >= Limb THEN 1
    ELSE 0
NatAddColumns(s, n) ==
    NatNorm([i \in 1..(n + 1) |->
        IF i <= n THEN (s[i] + CarryInto(s, i)) % Limb ELSE CarryInto(s, i)])
NatAdd(x, y) ==
    IF Len(x) > Len(y) THEN NatAddColumns(NatColumns(x, y, Len(x)), Len(x))
    ELSE NatAddColumns(NatColumns(x, y, Len(y)), Len(y))

\* x - y for x >= y by columns.  Column i is x[i] - y[i]; the borrow into it
\* comes from the nearest lower column that is not 0, and is 1 when that
\* column is negative.
NatDifferences(x, y) == [i \in 1..Len(x) |-> x[i] - LimbAt(y, i)]
BorrowInto(d, i) ==
    IF \A j \in 1..(i - 1) : d[j] = 0 THEN 0
    ELSE IF d[i - (CHOOSE k \in 1..(i - 1) : d[i - k] # 0)] < 0 THEN 1
    ELSE 0
NatSubColumns(d, n) ==
    NatNorm([i \in 1..n |-> (d[i] - BorrowInto(d, i) + Limb) % Limb])
NatSub(x, y) ==
    IF Len(y) = 0 THEN x ELSE NatSubColumns(NatDifferences(x, y), Len(x))

TopDifference(x, y) ==
    CHOOSE i \in 1..Len(x) : x[i] # y[i] /\ \A j \in (i + 1)..Len(x) : x[j] = y[j]
NatLt(x, y) ==
    \/ Len(x) < Len(y)
    \/ /\ Len(x) = Len(y)
       /\ x # y
       /\ x[TopDifference(x, y)] < y[TopDifference(x, y)]
NatLe(x, y) == x = y \/ NatLt(x, y)

\* x * k for 0 <= k <= Limb: the low limbs of the products plus their high
\* limbs one place up
NatMulSmall(x, k) ==
    NatAdd(NatNorm([i \in 1..Len(x) |-> (x[i] * k) % Limb]),
           NatNorm(<< 0 >> \o [i \in 1..Len(x) |-> (x[i] * k) \div Limb]))

NatShiftLimbs(x, q) == IF x = << >> THEN << >> ELSE [i \in 1..q |-> 0] \o x

\* x times the limbs lo..hi of y, in place
RECURSIVE NatMulRange(_, _, _, _)
NatMulRange(x, y, lo, hi) ==
    IF lo = hi THEN NatShiftLimbs(NatMulSmall(x, y[lo]), lo - 1)
    ELSE NatAdd(NatMulRange(x, y, lo, (lo + hi) \div 2),
                NatMulRange(x, y, (lo + hi) \div 2 + 1, hi))
NatMul(x, y) ==
    IF x = << >> \/ y = << >> THEN << >> ELSE NatMulRange(x, y, 1, Len(y))

\* quotient and remainder of x by k, 0 < k <= Limb
RECURSIVE NatDivSmallFrom(_, _, _, _, _)
NatDivSmallLimb(x, k, i, t, acc) ==
    NatDivSmallFrom(x, k, i - 1, t % k, << t \div k >> \o acc)
NatDivSmallFrom(x, k, i, rem, acc) ==
    IF i = 0 THEN [q |-> NatNorm(acc), r |-> rem]
    ELSE NatDivSmallLimb(x, k, i, rem * Limb + x[i], acc)
NatDivSmall(x, k) == NatDivSmallFrom(x, k, Len(x), 0, << >>)

LimbBitLen(n) == CHOOSE b \in 0..LimbBits : n < 2^b /\ (b = 0 \/ 2^(b - 1) <= n)
NatBitLen(x) ==
    IF x = << >> THEN 0 ELSE LimbBits * (Len(x) - 1) + LimbBitLen(x[Len(x)])

NatShiftLeft(x, s) ==
    NatShiftLimbs(NatMulSmall(x, 2^(s % LimbBits)), s \div LimbBits)
NatShiftRight(x, s) ==
    IF s \div LimbBits >= Len(x) THEN << >>
    ELSE NatDivSmall(SubSeq(x, s \div LimbBits + 1, Len(x)), 2^(s % LimbBits)).q
\* bit i of x, bit 0 the lowest
NatBit(x, i) == (LimbAt(x, i \div LimbBits + 1) \div 2^(i % LimbBits)) % 2
\* the s lowest bits of x are zero
NatLowBitsZero(x, s) ==
    /\ \A j \in 1..(s \div LimbBits) : LimbAt(x, j) = 0
    /\ LimbAt(x, s \div LimbBits + 1) % 2^(s % LimbBits) = 0

\* binary64: the value m * 2^e, the significand m of exactly 53 bits, or zero
SignificandBits == 53
Binary64Zero == [m |-> << >>, e |-> 0]

\* q is x without its s lowest bits; rounded to nearest, ties to even
RoundUp(x, s, q) ==
    /\ s > 0
    /\ NatBit(x, s - 1) = 1
    /\ ~NatLowBitsZero(x, s - 1) \/ NatBit(q, 0) = 1
Renormalized(m, e) ==
    IF NatBitLen(m) > SignificandBits
    THEN [m |-> NatShiftRight(m, 1), e |-> e + 1]
    ELSE [m |-> m, e |-> e]
RoundedAt(x, e, s, q) ==
    Renormalized(IF RoundUp(x, s, q) THEN NatAdd(q, NatOf(1)) ELSE q, e + s)
\* the binary64 nearest to x * 2^e
Binary64Of(x, e) ==
    IF x = << >> THEN Binary64Zero
    ELSE IF NatBitLen(x) <= SignificandBits
    THEN [m |-> NatShiftLeft(x, SignificandBits - NatBitLen(x)),
          e |-> e - (SignificandBits - NatBitLen(x))]
    ELSE RoundedAt(x, e, NatBitLen(x) - SignificandBits,
                   NatShiftRight(x, NatBitLen(x) - SignificandBits))

\* the float a decimal literal n/d denotes (0 <= n, 0 < d <= Limb): the
\* quotient to 70 binary places, with one more bit that is set when the
\* division left a remainder
WithSticky(qr) ==
    NatAdd(NatMulSmall(qr.q, 2), IF qr.r = 0 THEN << >> ELSE NatOf(1))
Binary64FromDecimal(n, d) ==
    Binary64Of(WithSticky(NatDivSmall(NatShiftLeft(NatOf(n), 70), d)), -71)

MinOf(a, b) == IF a < b THEN a ELSE b
AlignedTo(x, e) == NatShiftLeft(x.m, x.e - e)

Binary64Mul(x, y) == Binary64Of(NatMul(x.m, y.m), x.e + y.e)
Binary64AddAt(x, y, e) ==
    Binary64Of(NatAdd(AlignedTo(x, e), AlignedTo(y, e)), e)
Binary64Add(x, y) ==
    IF x.m = << >> THEN y
    ELSE IF y.m = << >> THEN x
    ELSE Binary64AddAt(x, y, MinOf(x.e, y.e))
Binary64LtAt(x, y, e) == NatLt(AlignedTo(x, e), AlignedTo(y, e))
Binary64Lt(x, y) ==
    IF y.m = << >> THEN FALSE
    ELSE IF x.m = << >> THEN TRUE
    ELSE Binary64LtAt(x, y, MinOf(x.e, y.e))
Binary64Le(x, y) == x = y \/ Binary64Lt(x, y)
\* abs(x - y)
Binary64AbsDiffAt(x, y, e) ==
    IF NatLt(AlignedTo(x, e), AlignedTo(y, e))
    THEN Binary64Of(NatSub(AlignedTo(y, e), AlignedTo(x, e)), e)
    ELSE Binary64Of(NatSub(AlignedTo(x, e), AlignedTo(y, e)), e)
Binary64AbsDiff(x, y) ==
    IF x.m = << >> THEN y
    ELSE IF y.m = << >> THEN x
    ELSE Binary64AbsDiffAt(x, y, MinOf(x.e, y.e))

----------------------------------------------------------------------------
(* The asset catalog: class attribute ASSETS, lines 20-89 *)

Asset(c, s, d, cagr, risk) ==
    [asset_class |-> c, asset_subtype |-> s, default_options |-> d,
     male_existing_options |-> << >>, female_existing_options |-> << >>,
     expected_cagr |-> cagr, risk_rating |-> risk]

CLASS_ASSETS ==
    << Asset("Mutual Fund", "Small Cap",
             << "Axis Small Cap Fund - Direct Plan - Growth" >>, Rat(185, 10), 5),
       Asset("Mutual Fund", "Mid Cap",
             << "Kotak Emerging Equity Fund - Direct Plan - Growth" >>, Rat(152, 10), 4),
       Asset("Mutual Fund", "Large Cap",
             << "ICICI Prudential Bluechip Fund - Direct - Growth",
                "Nippon India Large Cap Fund - Direct - Growth" >>, Rat(129, 10), 3),
       Asset("Fixed Deposit", "N/A", << "HDFC Bank 5-Year FD" >>, Rat(70, 10), 1),
       Asset("Savings Account", "N/A",
             << "SBI Regular Savings Account" >>, Rat(35, 10), 1),
       Asset("ETF", "N/A",
             << "Motilal Oswal Nasdaq 100 ETF", "Nifty 50 ETF" >>, Rat(125, 10), 4) >>

\* one pass of _extract_user_holdings over one scheme and one product
HoldingMatches(scheme, product) ==
    \/ /\ scheme.assetClass = "EQUITY"
       /\ product.asset_class = "Mutual Fund"
       /\ product.risk_rating >= 4
       /\ scheme.fundhouseDefinedRiskLevel = "VERY_HIGH_RISK"
    \/ /\ scheme.assetClass = "EQUITY"
       /\ product.asset_class = "Mutual Fund"
       /\ product.risk_rating = 4
       /\ scheme.fundhouseDefinedRiskLevel = "MODERATE_RISK"

RECURSIVE _extract_user_holdings(_, _, _)
\* schemes: the mfSchemeAnalytics of one partner; appends the scheme's name to
\* every matching product, scheme by scheme
_extract_user_holdings(schemes, all_products, male) ==
    IF schemes = << >> THEN all_products
    ELSE LET scheme == Head(schemes)
             marked ==
                 [i \in 1..Len(all_products) |->
                     IF HoldingMatches(scheme, all_products[i])
                     THEN IF male
                          THEN [all_products[i] EXCEPT !.male_existing_options =
                                   Append(@, scheme.longName)]
                          ELSE [all_products[i] EXCEPT !.female_existing_options =
                                   Append(@, scheme.longName)]
                     ELSE all_products[i]]
         IN  _extract_user_holdings(Tail(schemes), marked, male)

\* both calls leave the parameter male at its default, True (lines 312-313)
analyze_and_structure_assets_by_category(male_schemes, female_schemes) ==
    _extract_user_holdings(female_schemes,
        _extract_user_holdings(male_schemes, CLASS_ASSETS, TRUE), TRUE)

get_expected_cagr(assets, asset_class, asset_subtype) ==
    LET hits == { i \in 1..Len(assets) :
                    /\ assets[i].asset_class = asset_class
                    /\ assets[i].asset_subtype = asset_subtype }
    IN  IF hits = { } THEN << >>
        ELSE << assets[CHOOSE i \in hits : \A j \in hits : i <= j].expected_cagr >>

----------------------------------------------------------------------------
(* External data of the two partners (FIMCPDataAccess), as small fixtures *)

\* get_net_worth()['mfSchemeAnalytics']['schemeAnalytics']
MaleSchemes ==
    << [longName |-> "male small cap fund", assetClass |-> "EQUITY",
        fundhouseDefinedRiskLevel |-> "VERY_HIGH_RISK"] >>

FemaleSchemes ==
    << [longName |-> "female flexi cap fund", assetClass |-> "EQUITY",
        fundhouseDefinedRiskLevel |-> "VERY_HIGH_RISK"] >>

\* get_mutual_fund_transactions()['mfTransactions']; a txn is <<type, amount>>
\* (txn[0] and txn[4] of the source), type 1 is a buy
MaleMfTransactions ==
    << [schemeName |-> "male small cap fund",
        txns |-> << <<1, R(12)>>, <<1, R(5)>>, <<2, R(3)>>, <<1, R(5)>> >>] >>

FemaleMfTransactions ==
    << [schemeName |-> "female index fund", txns |-> << <<1, R(4)>> >>],
       [schemeName |-> "", txns |-> << <<1, R(9)>> >>] >>

\* get_epf_details()['uanAccounts'], the fields process_epf_data reads
MaleEpfAccounts ==
    << [has_balance |-> TRUE, current_pf_balance |-> R(200),
        pension_balance |-> R(50), employee_credit |-> R(3),
        employer_credit |-> R(3)] >>

FemaleEpfAccounts == << >>

----------------------------------------------------------------------------
(* create_initial_goals, lines 140-257 *)

CountOf(s, x) == Cardinality({ i \in 1..Len(s) : s[i] = x })

\* Counter(buy_txns).most_common(1)[0][0]: the most frequent amount, the one
\* met first among equally frequent ones
most_common_amount(buy_txns) ==
    LET best == { i \in 1..Len(buy_txns) :
                    \A j \in 1..Len(buy_txns) :
                        CountOf(buy_txns, buy_txns[j]) <= CountOf(buy_txns, buy_txns[i]) }
    IN  buy_txns[CHOOSE i \in best : \A j \in best : i <= j]

\* [txn[4] for txn in mf['txns'] if txn[0] == 1]
Amounts(txns) == [i \in 1..Len(txns) |-> txns[i][2]]

BuyTxns(mf) ==
    Amounts(SelectSeqIdx(mf.txns, [i \in 1..Len(mf.txns) |-> mf.txns[i][1] = 1]))

\* assets[scheme_name] = most_common_amount: a scheme met again replaces its
\* amount and keeps its place in the dict
PutAsset(acc, line) ==
    IF \E i \in 1..Len(acc) : acc[i].asset_name = line.asset_name
    THEN [i \in 1..Len(acc) |->
             IF acc[i].asset_name = line.asset_name THEN line ELSE acc[i]]
    ELSE Append(acc, line)

\* lines 183-189: a scheme without a name or without a buy is skipped
Skipped(mf) ==
    mf.schemeName = "" \/ \A i \in 1..Len(mf.txns) : mf.txns[i][1] # 1

RECURSIVE MfAssets(_, _)
MfAssets(transactions, acc) ==
    IF transactions = << >> THEN acc
    ELSE IF Skipped(Head(transactions)) THEN MfAssets(Tail(transactions), acc)
    ELSE MfAssets(Tail(transactions),
             PutAsset(acc, [asset_name |-> Head(transactions).schemeName,
                            amount |-> most_common_amount(
                                           BuyTxns(Head(transactions)))]))

RECURSIVE MfCorpus(_)
MfCorpus(transactions) ==
    IF transactions = << >> THEN Zero
    ELSE IF Skipped(Head(transactions)) THEN MfCorpus(Tail(transactions))
    ELSE RAdd(RSum(BuyTxns(Head(transactions))), MfCorpus(Tail(transactions)))

MfSummary(asset_list, total_corpus) ==
    [assets |-> asset_list,
     corpus |-> total_corpus,
     monthly |-> RSum([i \in 1..Len(asset_list) |-> asset_list[i].amount])]

process_mf_transactions(transactions) ==
    MfSummary(MfAssets(transactions, << >>), MfCorpus(transactions))

RECURSIVE EpfCorpus(_)
EpfCorpus(accounts) ==
    IF accounts = << >> THEN Zero
    ELSE RAdd(IF Head(accounts).has_balance
              THEN RAdd(Head(accounts).current_pf_balance,
                        Head(accounts).pension_balance)
              ELSE Zero,
              EpfCorpus(Tail(accounts)))

\* contribution_amount is assigned, not accumulated: the last account's credits
process_epf_data(accounts) ==
    [corpus |-> EpfCorpus(accounts),
     contribution |->
        IF accounts = << >> THEN Zero
        ELSE RAdd(accounts[Len(accounts)].employee_credit,
                  accounts[Len(accounts)].employer_credit)]

WealthGoalName == "Wealth Creation (1 Cr)"
RetirementGoalName == "Retirement Corpus (10 Cr)"
\* 10000000.0 and 100000000.0 rupees, in units of 1000 rupees
WealthTarget == 10000
RetirementTarget == 100000

wealth_goal(m, f) ==
    [name |-> WealthGoalName,
     target_amount |-> R(WealthTarget),
     male_assets |-> m.assets,
     female_assets |-> f.assets,
     current_corpus |-> RAdd(m.corpus, f.corpus),
     male_monthly_contribution |-> m.monthly,
     female_monthly_contribution |-> f.monthly,
     total_monthly_contribution |-> RAdd(m.monthly, f.monthly),
     pledged |-> FALSE]

retirement_goal(me, fe) ==
    [name |-> RetirementGoalName,
     target_amount |-> R(RetirementTarget),
     male_assets |-> << [asset_name |-> "EPF & Pension",
                         amount |-> me.contribution] >>,
     female_assets |-> << [asset_name |-> "EPF & Pension",
                           amount |-> fe.contribution] >>,
     current_corpus |-> RAdd(me.corpus, fe.corpus),
     male_monthly_contribution |-> me.contribution,
     female_monthly_contribution |-> fe.contribution,
     total_monthly_contribution |-> RAdd(me.contribution, fe.contribution),
     pledged |-> FALSE]

create_initial_goals ==
    << wealth_goal(process_mf_transactions(MaleMfTransactions),
                   process_mf_transactions(FemaleMfTransactions)),
       retirement_goal(process_epf_data(MaleEpfAccounts),
                       process_epf_data(FemaleEpfAccounts)) >>

----------------------------------------------------------------------------
(* The goals document: json.dump / json.load of self.goals *)

\* a dict becomes the list of its (key, value) pairs in insertion order
DumpAssets(lines) ==
    [i \in 1..Len(lines) |->
        << <<"asset_name", lines[i].asset_name>>, <<"amount", lines[i].amount>> >>]

DumpGoal(g) ==
    << <<"name", g.name>>,
       <<"target_amount", g.target_amount>>,
       <<"male_assets", DumpAssets(g.male_assets)>>,
       <<"female_assets", DumpAssets(g.female_assets)>>,
       <<"current_corpus", g.current_corpus>>,
       <<"male_monthly_contribution", g.male_monthly_contribution>>,
       <<"female_monthly_contribution", g.female_monthly_contribution>>,
       <<"total_monthly_contribution", g.total_monthly_contribution>>,
       <<"pledged", g.pledged>> >>

JsonDump(gs) == [kind |-> "json", doc |-> [i \in 1..Len(gs) |-> DumpGoal(gs[i])]]

\* obj[key] of a loaded dict
Member(obj, key) == obj[CHOOSE i \in 1..Len(obj) : obj[i][1] = key][2]

LoadAssets(lines) ==
    [i \in 1..Len(lines) |->
        [asset_name |-> Member(lines[i], "asset_name"),
         amount |-> Member(lines[i], "amount")]]

LoadGoal(obj) ==
    [name |-> Member(obj, "name"),
     target_amount |-> Member(obj, "target_amount"),
     male_assets |-> LoadAssets(Member(obj, "male_assets")),
     female_assets |-> LoadAssets(Member(obj, "female_assets")),
     current_corpus |-> Member(obj, "current_corpus"),
     male_monthly_contribution |-> Member(obj, "male_monthly_contribution"),
     female_monthly_contribution |-> Member(obj, "female_monthly_contribution"),
     total_monthly_contribution |-> Member(obj, "total_monthly_contribution"),
     pledged |-> Member(obj, "pledged")]

JsonLoad(f) == [i \in 1..Len(f.doc) |-> LoadGoal(f.doc[i])]

\* _save_goals_to_file, lines 132-138: the write either happens or raises
\* inside the try and leaves the document as it was
_save_goals_to_file(gs, old, write_ok) == IF write_ok THEN JsonDump(gs) ELSE old

----------------------------------------------------------------------------
(* Portfolio blender: calculate_weighted_portfolio_return, lines 721-784 *)

\* the ladder's lines are <<asset_class, asset_subtype, percentage>>
RECURSIVE BlendLines(_, _, _, _, _)
RECURSIVE BlendLine(_, _, _, _, _, _, _)

\* lines 744-770 for the ladder's first line, then the rest of the loop
BlendLine(assets, ladder, total_allocation, weighted_return, details, percentage, expected_cagr) ==
    IF ~(RLe(Zero, percentage) /\ RLe(percentage, One))
    THEN [status |-> "ERROR",
          message |-> "Allocation percentage must be between 0 and 1"]
    ELSE IF expected_cagr = << >>
    THEN [status |-> "ERROR", message |-> "Asset not found"]
    ELSE BlendLines(assets, Tail(ladder),
             RAdd(total_allocation, percentage),
             RAdd(weighted_return, RMul(percentage, expected_cagr[1])),
             Append(details,
                 [asset_class |-> Head(ladder)[1],
                  asset_subtype |-> Head(ladder)[2],
                  allocation_percentage |-> RMul(percentage, R(100)),
                  expected_cagr |-> expected_cagr[1],
                  weighted_contribution |-> RMul(percentage, expected_cagr[1])]))

\* the loop of lines 735-770
BlendLines(assets, ladder, total_allocation, weighted_return, details) ==
    IF ladder = << >>
    THEN [status |-> "SUCCESS", total_allocation |-> total_allocation,
          weighted_return |-> weighted_return, details |-> details]
    ELSE IF Len(Head(ladder)) # 3
    THEN [status |-> "ERROR", message |-> "Invalid allocation format"]
    ELSE BlendLine(assets, ladder, total_allocation, weighted_return, details,
                   Head(ladder)[3],
                   get_expected_cagr(assets, Head(ladder)[1], Head(ladder)[2]))

RAbs(x) == << Abs(x[1]), x[2] >>

\* a slip: only a total above 1.001 is refused
CheckTotalAllocationAbove(r) ==
    IF r.status # "SUCCESS" THEN r
    ELSE IF RLt(Rat(1, 1000), RSub(r.total_allocation, One))
    THEN [status |-> "ERROR", message |-> "Total allocation must equal 100%"]
    ELSE [status |-> "SUCCESS",
          portfolio_expected_cagr |-> r.weighted_return,
          total_allocation |-> RMul(r.total_allocation, R(100)),
          allocation_details |-> r.details]

\* lines 772-784
CheckTotalAllocation(r) ==
    IF r.status # "SUCCESS" THEN r
    ELSE IF RLt(Rat(1, 1000), RAbs(RSub(r.total_allocation, One)))
    THEN [status |-> "ERROR", message |-> "Total allocation must equal 100%"]
    ELSE [status |-> "SUCCESS",
          portfolio_expected_cagr |-> r.weighted_return,
          total_allocation |-> RMul(r.total_allocation, R(100)),
          allocation_details |-> r.details]

calculate_weighted_portfolio_return(assets, asset_ladder) ==
    CheckTotalAllocation(BlendLines(assets, asset_ladder, Zero, Zero, << >>))

----------------------------------------------------------------------------
(* The blender in binary64: the same lines 721-784, every product and sum
   rounded as Python rounds it.  Percentages and CAGRs are the floats that
   their decimal literals denote.  allocation_details is left out. *)

\* the float of a decimal that is not negative
Float(r) == Binary64FromDecimal(r[1], r[2])

RECURSIVE BlendLines64(_, _, _, _)

\* lines 745-762 for the ladder's first line, then the rest of the loop
BlendLine64(assets, ladder, total_allocation, weighted_return, percentage, expected_cagr) ==
    IF percentage[1] < 0 \/ Binary64Lt(Float(One), Float(percentage))
    THEN [status |-> "ERROR",
          message |-> "Allocation percentage must be between 0 and 1"]
    ELSE IF expected_cagr = << >>
    THEN [status |-> "ERROR", message |-> "Asset not found"]
    ELSE BlendLines64(assets, Tail(ladder),
             Binary64Add(total_allocation, Float(percentage)),
             Binary64Add(weighted_return,
                         Binary64Mul(Float(percentage), Float(expected_cagr[1]))))

\* the loop of lines 735-770
BlendLines64(assets, ladder, total_allocation, weighted_return) ==
    IF ladder = << >>
    THEN [status |-> "SUCCESS", total_allocation |-> total_allocation,
          weighted_return |-> weighted_return]
    ELSE IF Len(Head(ladder)) # 3
    THEN [status |-> "ERROR", message |-> "Invalid allocation format"]
    ELSE BlendLine64(assets, ladder, total_allocation, weighted_return,
                     Head(ladder)[3],
                     get_expected_cagr(assets, Head(ladder)[1], Head(ladder)[2]))

\* lines 772-784
CheckTotalAllocation64(r) ==
    IF r.status # "SUCCESS" THEN r
    ELSE IF Binary64Lt(Float(Rat(1, 1000)),
                       Binary64AbsDiff(r.total_allocation, Float(One)))
    THEN [status |-> "ERROR", message |-> "Total allocation must equal 100%"]
    ELSE [status |-> "SUCCESS",
          portfolio_expected_cagr |-> r.weighted_return,
          total_allocation |-> Binary64Mul(r.total_allocation, Float(R(100)))]

calculate_weighted_portfolio_return64(assets, asset_ladder) ==
    CheckTotalAllocation64(BlendLines64(assets, asset_ladder,
                                        Binary64Zero, Binary64Zero))

----------------------------------------------------------------------------
(* Timeline solver *)

\* months_needed as the code computes it: (target - corpus) / pmt at rate 0,
\* otherwise log(numerator / denominator) / log(1 + monthly_rate), kept as
\* the pair of arguments of the two logarithms
LinearMonths(x) == [kind |-> "linear", arg |-> x, base |-> One]
LogMonths(x, b) == [kind |-> "log", arg |-> x, base |-> b]

\* months_needed <= 0; the base 1 + monthly_rate of a logarithm is above 1
MonthsNotPositive(m) ==
    IF m.kind = "linear" THEN RLe(m.arg, Zero) ELSE RLe(m.arg, One)

\* lines 929-930 and 499-502
PositiveMonths(m) ==
    IF MonthsNotPositive(m)
    THEN [status |-> "ERROR", message |-> "Invalid calculation result."]
    ELSE [status |-> "SUCCESS", months_needed |-> m]

\* lines 918-927 and 488-497; log of a non-positive argument raises
\* ValueError, caught at 926 and 496
SolveLog(numerator, denominator, base) ==
    IF RLe(denominator, Zero) \/ RLe(numerator, Zero)
    THEN [status |-> "ERROR", message |-> "Mathematical error in calculation."]
    ELSE PositiveMonths(LogMonths(RDiv(numerator, denominator), base))

\* lines 912-930 and 485-502, the same computation in the two solvers
SolveMonths(pmt, target_amount, monthly_rate, corpus) ==
    IF monthly_rate = Zero
    THEN PositiveMonths(LinearMonths(RDiv(RSub(target_amount, corpus), pmt)))
    ELSE SolveLog(RAdd(RMul(target_amount, monthly_rate), pmt),
                  RAdd(RMul(corpus, monthly_rate), pmt),
                  RAdd(One, monthly_rate))

\* line 480
MonthlyRateUndivided(annual_return_rate) == annual_return_rate
MonthlyRate(annual_return_rate) == RDiv(annual_return_rate, R(12))

\* get_num_of_months_to_reach_goal, lines 454-505
get_num_of_months_to_reach_goal(monthly_investment, target_amount, annual_return_rate, current_corpus) ==
    IF RLe(monthly_investment, Zero)
    THEN [status |-> "ERROR", message |-> "Monthly investment must be positive."]
    ELSE IF RLe(target_amount, Zero)
    THEN [status |-> "ERROR", message |-> "Target amount must be positive."]
    ELSE IF RLt(annual_return_rate, Zero)
    THEN [status |-> "ERROR", message |-> "Annual return rate cannot be negative."]
    ELSE IF RLt(current_corpus, Zero)
    THEN [status |-> "ERROR", message |-> "Current corpus cannot be negative."]
    ELSE IF RLe(target_amount, current_corpus)
    THEN [status |-> "SUCCESS", months_needed |-> LinearMonths(Zero)]
    ELSE SolveMonths(monthly_investment, target_amount,
                     MonthlyRate(annual_return_rate), current_corpus)

\* Ordering of months_needed values.  log(arg) / log(base) against p / q is
\* arg^q against base^p, computed on natural numbers of any size.

NatSquare(x) == NatMul(x, x)
\* x^k from h = x^(k \div 2)
NatPowFrom(h, x, k) ==
    IF h = << >> THEN << >>
    ELSE IF k % 2 = 0 THEN NatSquare(h)
    ELSE NatMul(x, NatSquare(h))
RECURSIVE NatPow(_, _)
NatPow(x, k) ==
    IF k = 0 THEN NatOf(1) ELSE NatPowFrom(NatPow(x, k \div 2), x, k)

\* a^q < b^p for positive rationals a and b
PowLt(a, q, b, p) ==
    NatLt(NatMul(NatPow(NatOf(a[1]), q), NatPow(NatOf(b[2]), p)),
          NatMul(NatPow(NatOf(a[2]), q), NatPow(NatOf(b[1]), p)))

\* months m below, and above, the rational s >= 0
MonthsLtRat(m, s) ==
    IF m.kind = "linear" THEN RLt(m.arg, s)
    ELSE PowLt(m.arg, s[2], m.base, s[1])
RatLtMonths(s, m) ==
    IF m.kind = "linear" THEN RLt(s, m.arg)
    ELSE PowLt(m.base, s[1], m.arg, s[2])

\* the whole months of m, known to be at least lo and less than hi
RECURSIVE FloorBetween(_, _, _)
FloorBetween(m, lo, hi) ==
    IF hi = lo + 1 THEN lo
    ELSE IF MonthsLtRat(m, R((lo + hi) \div 2))
    THEN FloorBetween(m, lo, (lo + hi) \div 2)
    ELSE FloorBetween(m, (lo + hi) \div 2, hi)

\* a whole number above the months m, found by doubling
RECURSIVE CeilingFrom(_, _)
CeilingFrom(m, hi) ==
    IF MonthsLtRat(m, R(hi)) THEN hi ELSE CeilingFrom(m, 2 * hi)

\* floor(months), for months >= 0
FloorMonths(m) == FloorBetween(m, 0, CeilingFrom(m, 1))

\* m1 < m2.  Exact, except between logarithms of different bases: there it
\* holds only if a whole number of months separates the two.
MonthsLt(m1, m2) ==
    IF m1.kind = "linear" THEN RatLtMonths(m1.arg, m2)
    ELSE IF m2.kind = "linear" THEN MonthsLtRat(m1, m2.arg)
    ELSE IF m1.base = m2.base THEN RLt(m1.arg, m2.arg)
    ELSE FloorMonths(m1) < FloorMonths(m2)

----------------------------------------------------------------------------
(* Redistribution: lines 853-881 of
   calculate_months_to_reach_goal_with_asset_ladder *)

Pledged(gs) == { i \in 1..Len(gs) : gs[i].pledged }

\* no_of_pledged, pledged_male_contribution, pledged_female_contribution
\* after the loop of lines 856-861
no_of_pledged(gs) == Cardinality(Pledged(gs))

pledged_male_contribution(gs) ==
    RSum([i \in 1..Len(gs) |->
        IF gs[i].pledged THEN gs[i].male_monthly_contribution ELSE Zero])

pledged_female_contribution(gs) ==
    RSum([i \in 1..Len(gs) |->
        IF gs[i].pledged THEN gs[i].female_monthly_contribution ELSE Zero])

\* a slip: the allocation lines are left as they were
AssetsNotDivided(lines, n) == lines

DivideAssets(lines, n) ==
    [j \in 1..Len(lines) |-> [lines[j] EXCEPT !.amount = RDiv(@, R(n))]]

\* lines 870-878 on one pledged goal
DivideGoal(goal, n) ==
    [goal EXCEPT
        !.male_monthly_contribution = RDiv(@, R(n)),
        !.female_monthly_contribution = RDiv(@, R(n)),
        !.total_monthly_contribution = RDiv(@, R(n)),
        !.male_assets = DivideAssets(@, n),
        !.female_assets = DivideAssets(@, n)]

\* lines 868-878
RedistributeGoals(gs, n) ==
    [i \in 1..Len(gs) |-> IF gs[i].pledged THEN DivideGoal(gs[i], n) ELSE gs[i]]

\* a slip: the share is taken before no_of_pledged is incremented
FreedShareOfExisting(pledged_contribution, n) ==
    RDiv(pledged_contribution, R(n - 1))

\* lines 880-881: what the new goal may take of one partner's pledged amount
FreedShare(pledged_contribution, n) == RDiv(pledged_contribution, R(n))

----------------------------------------------------------------------------
(* Goal staging: calculate_months_to_reach_goal_with_asset_ladder,
   lines 847-980 *)

Error(message) == [status |-> "ERROR", message |-> message]

\* lines 940-977: the staged discussion and the report.  The report's years,
\* remaining_months, total_invested, total_returns and formatted strings are
\* functions of months_needed, the contributions and the target and are not
\* repeated here.
TimelineReport(male, female, fd, goal_name, asset_ladder, target_amount, portfolio_result, annual_return_rate, monthly_rate, solved) ==
    IF solved.status # "SUCCESS"
    THEN [fd |-> fd, result |-> solved]
    ELSE [fd |-> [present |-> TRUE,
                  name |-> goal_name,
                  male_monthly_contribution |-> male,
                  female_monthly_contribution |-> female,
                  asset_ladder |-> asset_ladder],
          result |->
              [status |-> "SUCCESS",
               goal_already_achieved |-> FALSE,
               months_needed |-> solved.months_needed,
               target_amount |-> target_amount,
               starting_corpus |-> Zero,
               male_monthly_contribution |-> male,
               female_monthly_contribution |-> female,
               total_monthly_contribution |-> RAdd(male, female),
               portfolio_expected_cagr |->
                   portfolio_result.portfolio_expected_cagr,
               annual_return_rate |-> annual_return_rate,
               monthly_return_rate |-> monthly_rate,
               allocation_details |-> portfolio_result.allocation_details]]

\* lines 909-930: monthly_rate and months_needed, with starting_corpus = 0
TimelineAtRate(male, female, fd, goal_name, asset_ladder, target_amount, portfolio_result, annual_return_rate, monthly_rate) ==
    TimelineReport(male, female, fd, goal_name, asset_ladder, target_amount,
                   portfolio_result, annual_return_rate, monthly_rate,
                   SolveMonths(RAdd(male, female), target_amount, monthly_rate,
                               Zero))

\* lines 904-909
TimelineOfPortfolio(male, female, fd, goal_name, asset_ladder, target_amount, portfolio_result, annual_return_rate) ==
    TimelineAtRate(male, female, fd, goal_name, asset_ladder, target_amount,
                   portfolio_result, annual_return_rate,
                   RDiv(annual_return_rate, R(12)))

TimelineBlended(male, female, fd, goal_name, asset_ladder, target_amount, portfolio_result) ==
    IF portfolio_result.status # "SUCCESS"
    THEN [fd |-> fd, result |-> portfolio_result]
    ELSE TimelineOfPortfolio(male, female, fd, goal_name, asset_ladder,
             target_amount, portfolio_result,
             RDiv(portfolio_result.portfolio_expected_cagr, R(100)))

\* lines 883-977, once the trackers male and female are settled
Timeline(assets, male, female, fd, goal_name, asset_ladder, target_amount) ==
    IF RLe(RAdd(male, female), Zero)
    THEN [fd |-> fd,
          result |-> Error("Total monthly contribution must be positive.")]
    ELSE IF RLe(target_amount, Zero)
    THEN [fd |-> fd,
          result |-> [status |-> "SUCCESS", goal_already_achieved |-> TRUE,
                      months_needed |-> LinearMonths(Zero)]]
    ELSE TimelineBlended(male, female, fd, goal_name, asset_ladder,
             target_amount,
             calculate_weighted_portfolio_return(assets, asset_ladder))

\* line 853: both partners' unpledged remainders are used up
PoolExhausted(male, female) == male = Zero /\ female = Zero

\* a slip: the check of lines 863-864 is missing
NothingPledgedUnchecked(gs) == FALSE

\* line 863: no pledged goal to take a share from
NothingPledged(gs) == no_of_pledged(gs) = 0

\* a slip: a successful proposal already takes its contributions out of the
\* trackers, as the commit does
StagedAndReserved(gs, male, female, redistributed, t) ==
    [goals |-> gs,
     male |-> IF t.result.status = "SUCCESS" THEN Zero ELSE male,
     female |-> IF t.result.status = "SUCCESS" THEN Zero ELSE female,
     fd |-> t.fd, redistributed |-> redistributed, result |-> t.result]

\* what the call leaves behind and returns; redistributed: the branch of line
\* 853 ran to the redistribution (it prints at line 854)
Staged(gs, male, female, redistributed, t) ==
    [goals |-> gs, male |-> male, female |-> female, fd |-> t.fd,
     redistributed |-> redistributed, result |-> t.result]

\* lines 866-883: the pledged goals divided, the trackers reset
Redistributed(gs, male, female, fd, assets, goal_name, asset_ladder, target_amount) ==
    Staged(gs, male, female, TRUE,
           Timeline(assets, male, female, fd, goal_name, asset_ladder,
                    target_amount))

\* lines 854-945: the call from the branch that the test of line 853 chose;
\* exhausted is the value that test had
StageAfterTest(gs, male, female, fd, assets, exhausted, goal_name, asset_ladder, target_amount) ==
    IF exhausted
    THEN IF NothingPledged(gs)
         THEN [goals |-> gs, male |-> male, female |-> female, fd |-> fd,
               redistributed |-> FALSE,
               result |-> Error("You don't have any amount to invest")]
         ELSE Redistributed(
                  RedistributeGoals(gs, no_of_pledged(gs) + 1),
                  FreedShare(pledged_male_contribution(gs), no_of_pledged(gs) + 1),
                  FreedShare(pledged_female_contribution(gs), no_of_pledged(gs) + 1),
                  fd, assets, goal_name, asset_ladder, target_amount)
    ELSE Staged(gs, male, female, FALSE,
                Timeline(assets, male, female, fd, goal_name, asset_ladder,
                         target_amount))

\* the whole call: the new goals, trackers and staged discussion, and the report
StageGoal(gs, male, female, fd, assets, goal_name, asset_ladder, target_amount) ==
    IF RLe(target_amount, Zero)
    THEN [goals |-> gs, male |-> male, female |-> female, fd |-> fd,
          redistributed |-> FALSE,
          result |-> Error("Target amount must be positive.")]
    ELSE StageAfterTest(gs, male, female, fd, assets, PoolExhausted(male, female),
                        goal_name, asset_ladder, target_amount)

----------------------------------------------------------------------------
(* Goal commit: create_goal, lines 343-389 *)

\* the products of the catalog a ladder line names, in catalog order
Products(assets, asset_class, asset_subtype) ==
    SelectSeqIdx(assets,
        [i \in 1..Len(assets) |->
            /\ assets[i].asset_class = asset_class
            /\ assets[i].asset_subtype = asset_subtype])

\* lines 354-368 for one partner and one product
AllocationLine(product, existing_options, contribution, asset_percentage) ==
    [asset_name |-> IF existing_options # << >> THEN existing_options[1]
                    ELSE product.default_options[1],
     amount |-> RMul(contribution, asset_percentage)]

\* lines 352-368 for one ladder line and one partner
ProductLines(products, contribution, asset_percentage, male) ==
    [i \in 1..Len(products) |->
        AllocationLine(products[i],
            IF male THEN products[i].male_existing_options
            ELSE products[i].female_existing_options,
            contribution, asset_percentage)]

RECURSIVE AllocationLines(_, _, _, _)
\* lines 351-368 for one partner
AllocationLines(assets, ladder, contribution, male) ==
    IF ladder = << >> THEN << >>
    ELSE ProductLines(Products(assets, Head(ladder)[1], Head(ladder)[2]),
                      contribution, Head(ladder)[3], male)
         \o AllocationLines(assets, Tail(ladder), contribution, male)

\* a slip: the goal's total is the male contribution alone
NewGoalOfMaleTotal(fd, assets, target_amount) ==
    [name |-> fd.name,
     target_amount |-> target_amount,
     male_assets |-> AllocationLines(assets, fd.asset_ladder,
                                     fd.male_monthly_contribution, TRUE),
     female_assets |-> AllocationLines(assets, fd.asset_ladder,
                                       fd.female_monthly_contribution, FALSE),
     current_corpus |-> Zero,
     male_monthly_contribution |-> fd.male_monthly_contribution,
     female_monthly_contribution |-> fd.female_monthly_contribution,
     total_monthly_contribution |-> fd.male_monthly_contribution,
     pledged |-> TRUE]

\* goali, lines 370-380
NewGoal(fd, assets, target_amount) ==
    [name |-> fd.name,
     target_amount |-> target_amount,
     male_assets |-> AllocationLines(assets, fd.asset_ladder,
                                     fd.male_monthly_contribution, TRUE),
     female_assets |-> AllocationLines(assets, fd.asset_ladder,
                                       fd.female_monthly_contribution, FALSE),
     current_corpus |-> Zero,
     male_monthly_contribution |-> fd.male_monthly_contribution,
     female_monthly_contribution |-> fd.female_monthly_contribution,
     total_monthly_contribution |-> RAdd(fd.male_monthly_contribution,
                                         fd.female_monthly_contribution),
     pledged |-> TRUE]

\* a slip: the store is saved before the goal is appended
CommittedAfterSave(gs, male, female, total, fd, old_file, write_ok, goali) ==
    [goals |-> Append(gs, goali),
     male |-> RSub(male, fd.male_monthly_contribution),
     female |-> RSub(female, fd.female_monthly_contribution),
     total |-> RSub(total, RAdd(fd.male_monthly_contribution,
                                fd.female_monthly_contribution)),
     file |-> _save_goals_to_file(gs, old_file, write_ok),
     result |-> [status |-> "CREATED", male_lines |-> goali.male_assets,
                 female_lines |-> goali.female_assets]]

\* lines 382-389: the goal appended, the trackers decremented, the store saved.
\* The returned text names, per ladder line and partner, the instrument and the
\* amount of the goal's allocation lines.
Committed(gs, male, female, total, fd, old_file, write_ok, goali) ==
    [goals |-> Append(gs, goali),
     male |-> RSub(male, fd.male_monthly_contribution),
     female |-> RSub(female, fd.female_monthly_contribution),
     total |-> RSub(total, RAdd(fd.male_monthly_contribution,
                                fd.female_monthly_contribution)),
     file |-> _save_goals_to_file(Append(gs, goali), old_file, write_ok),
     result |-> [status |-> "CREATED", male_lines |-> goali.male_assets,
                 female_lines |-> goali.female_assets]]

\* the whole call.  Line 346 reads self.final_discussion, which __init__ never
\* assigns: before the first staged discussion the read raises AttributeError.
\* The method never assigns self.final_discussion either.
CommitGoal(gs, male, female, total, fd, assets, old_file, target_amount, write_ok) ==
    IF ~fd.present
    THEN [goals |-> gs, male |-> male, female |-> female, total |-> total,
          file |-> old_file,
          result |-> [status |-> "RAISED", exception |-> "AttributeError"]]
    ELSE Committed(gs, male, female, total, fd, old_file, write_ok,
                   NewGoal(fd, assets, target_amount))

----------------------------------------------------------------------------
(* Impact analyzer: calculate_goal_impact_with_contribution_change, lines
   508-666.  A temporary change compounds the corpus over the period, which
   takes the amounts out of the range of machine integers: there they are
   quotients n / d of naturals of any size, never negative. *)

BigOf(r) == [n |-> NatOf(r[1]), d |-> NatOf(r[2])]
BigAdd(x, y) ==
    [n |-> NatAdd(NatMul(x.n, y.d), NatMul(y.n, x.d)), d |-> NatMul(x.d, y.d)]
BigMul(x, y) == [n |-> NatMul(x.n, y.n), d |-> NatMul(x.d, y.d)]
BigDiv(x, y) == [n |-> NatMul(x.n, y.d), d |-> NatMul(x.d, y.n)]
BigLt(x, y) == NatLt(NatMul(x.n, y.d), NatMul(y.n, x.d))
BigPow(x, k) == [n |-> NatPow(x.n, k), d |-> NatPow(x.d, k)]
\* x - 1 for x >= 1
BigLessOne(x) == [n |-> NatSub(x.n, x.d), d |-> x.d]

\* the months of a timeline: time_period_months, or 0, plus months_needed;
\* the argument of a logarithm is kept as a quotient of naturals
BigLog(m) == IF m.kind = "log" THEN [m EXCEPT !.arg = BigOf(m.arg)] ELSE m
Timespan(whole, m) == [whole |-> whole, rest |-> BigLog(m)]

BigOne == BigOf(One)
BigInv(x) == [n |-> x.d, d |-> x.n]

\* log(r) / log(b) < fp / q and log(r) / log(b) > fp / q, for 0 <= fp < q and
\* b > 1: decided by r against 1 and b where that is enough, else by powers
LogLtFraction(r, b, fp, q) ==
    IF fp = 0 THEN BigLt(r, BigOne)
    ELSE IF ~ BigLt(BigOne, r) THEN TRUE
    ELSE IF ~ BigLt(r, b) THEN FALSE
    ELSE BigLt(BigPow(r, q), BigPow(b, fp))
LogGtFraction(r, b, fp, q) ==
    IF fp = 0 THEN BigLt(BigOne, r)
    ELSE IF ~ BigLt(BigOne, r) THEN FALSE
    ELSE IF ~ BigLt(r, b) THEN TRUE
    ELSE BigLt(BigPow(b, fp), BigPow(r, q))

\* log(r) / log(b) < t for a rational t of either sign: the whole months of
\* t are taken out of r first
LogRatioLt(r, b, t) ==
    IF t[1] >= 0
    THEN LogLtFraction(BigDiv(r, BigPow(b, t[1] \div t[2])), b,
                       t[1] % t[2], t[2])
    ELSE LogGtFraction(BigDiv(BigInv(r), BigPow(b, (-t[1]) \div t[2])), b,
                       (-t[1]) % t[2], t[2])

\* m1 + s1 < m2 + s2 for months m1, m2 at one rate and rationals s1, s2
PlusLt(m1, s1, m2, s2) ==
    IF m1.kind = "linear" /\ m2.kind = "linear"
    THEN RLt(RAdd(m1.arg, s1), RAdd(m2.arg, s2))
    ELSE IF m1.kind = "linear"
    THEN LogRatioLt(BigInv(m2.arg), BigOf(m2.base),
                    RSub(RSub(s2, s1), m1.arg))
    ELSE IF m2.kind = "linear"
    THEN LogRatioLt(m1.arg, BigOf(m1.base), RAdd(RSub(s2, s1), m2.arg))
    ELSE LogRatioLt(BigDiv(m1.arg, m2.arg), BigOf(m1.base), RSub(s2, s1))

\* a < b + s for two timelines and a rational s >= 0
TimespanLt(a, b, s) ==
    PlusLt(a.rest, R(a.whole), b.rest, RAdd(R(b.whole), s))

\* lines 632-655, with difference = original_months - new_months; the count
\* of months that the text adds to "faster" and "slower" is left out
impact_str(original_months, new_months) ==
    IF /\ TimespanLt(original_months, new_months, Rat(1, 10))
       /\ TimespanLt(new_months, original_months, Rat(1, 10))
    THEN "no significant change"
    ELSE IF TimespanLt(new_months, original_months, Zero)
    THEN "faster"
    ELSE "slower"

\* one entry of results
ImpactLine(goal, original_months, new_months) ==
    [goal_name |-> goal.name, kind |-> "impact",
     impact |-> impact_str(original_months, new_months)]
ErrorLine(goal, stage, r) ==
    [goal_name |-> goal.name, kind |-> "error", stage |-> stage,
     message |-> r.message]

\* lines 575-580 and 594-599: the changed partner's contribution times
\* 1 + contribution_percentage_change, plus the other partner's
ChangedTotal(goal, gender, contribution_percentage_change) ==
    IF gender = "male"
    THEN RAdd(RMul(goal.male_monthly_contribution,
                   RAdd(One, contribution_percentage_change)),
              goal.female_monthly_contribution)
    ELSE RAdd(goal.male_monthly_contribution,
              RMul(goal.female_monthly_contribution,
                   RAdd(One, contribution_percentage_change)))

\* lines 582-590: a permanent change
PermanentLine(goal, original, new_result) ==
    IF new_result.status # "SUCCESS" THEN ErrorLine(goal, "new", new_result)
    ELSE ImpactLine(goal, Timespan(0, original.months_needed),
                    Timespan(0, new_result.months_needed))

\* lines 602-613 at monthly_rate = 0
CorpusAfterLinear(current_corpus, temp_total_contribution, time_period_months) ==
    IF RLe(temp_total_contribution, Zero) THEN current_corpus
    ELSE RAdd(current_corpus, RMul(temp_total_contribution, R(time_period_months)))

\* lines 602-611 at monthly_rate > 0: growth is (1 + monthly_rate) ** months
CorpusAfterGrowth(current_corpus, temp_total_contribution, monthly_rate, growth) ==
    IF RLe(temp_total_contribution, Zero)
    THEN BigMul(BigOf(current_corpus), growth)
    ELSE BigAdd(BigMul(BigOf(current_corpus), growth),
                BigMul(BigOf(temp_total_contribution),
                       BigDiv(BigLessOne(growth), BigOf(monthly_rate))))

\* get_num_of_months_to_reach_goal (lines 466-502) for the corpus of lines
\* 604-611, which is below the target and not negative
RemainingAfterGrowth(total_contribution, target_amount, annual_return_rate, corpus) ==
    IF RLe(total_contribution, Zero)
    THEN [status |-> "ERROR", message |-> "Monthly investment must be positive."]
    ELSE IF RLe(target_amount, Zero)
    THEN [status |-> "ERROR", message |-> "Target amount must be positive."]
    ELSE [status |-> "SUCCESS",
          months_needed |->
              [kind |-> "log",
               arg |-> BigDiv(BigAdd(BigOf(RMul(target_amount,
                                                MonthlyRate(annual_return_rate))),
                                     BigOf(total_contribution)),
                              BigAdd(BigMul(corpus,
                                            BigOf(MonthlyRate(annual_return_rate))),
                                     BigOf(total_contribution))),
               base |-> RAdd(One, MonthlyRate(annual_return_rate))]]

\* lines 616-629
TemporaryLine(goal, original, time_period_months, reached, remaining_result) ==
    IF reached
    THEN ImpactLine(goal, Timespan(0, original.months_needed),
                    Timespan(time_period_months, LinearMonths(Zero)))
    ELSE IF remaining_result.status # "SUCCESS"
    THEN ErrorLine(goal, "remaining", remaining_result)
    ELSE ImpactLine(goal, Timespan(0, original.months_needed),
                    [whole |-> time_period_months,
                     rest |-> remaining_result.months_needed])

\* lines 601-629 at monthly_rate = 0
TemporaryLinear(goal, original, time_period_months, annual_return_rate, corpus) ==
    TemporaryLine(goal, original, time_period_months,
                  RLe(goal.target_amount, corpus),
                  get_num_of_months_to_reach_goal(goal.total_monthly_contribution,
                      goal.target_amount, annual_return_rate, corpus))

\* lines 601-629 at monthly_rate > 0
TemporaryGrowth(goal, original, time_period_months, annual_return_rate, corpus) ==
    TemporaryLine(goal, original, time_period_months,
                  ~ BigLt(corpus, BigOf(goal.target_amount)),
                  RemainingAfterGrowth(goal.total_monthly_contribution,
                      goal.target_amount, annual_return_rate, corpus))

\* lines 572-629: time_period_months is << >> for None, else << months >>
ChangedLine(goal, original, new_total, time_period_months, annual_return_rate) ==
    IF time_period_months = << >>
    THEN PermanentLine(goal, original,
             get_num_of_months_to_reach_goal(new_total, goal.target_amount,
                 annual_return_rate, goal.current_corpus))
    ELSE IF RLt(Zero, MonthlyRate(annual_return_rate))
    THEN TemporaryGrowth(goal, original, time_period_months[1],
             annual_return_rate,
             CorpusAfterGrowth(goal.current_corpus, new_total,
                 MonthlyRate(annual_return_rate),
                 BigPow(BigOf(RAdd(One, MonthlyRate(annual_return_rate))),
                        time_period_months[1])))
    ELSE TemporaryLinear(goal, original, time_period_months[1],
             annual_return_rate,
             CorpusAfterLinear(goal.current_corpus, new_total,
                               time_period_months[1]))

\* the body of the loop, lines 553-657, for one goal
GoalLine(goal, original, new_total, time_period_months, annual_return_rate) ==
    IF original.status # "SUCCESS" THEN ErrorLine(goal, "original", original)
    ELSE ChangedLine(goal, original, new_total, time_period_months,
                     annual_return_rate)

\* gender.lower()
Lower(gender) == IF gender = "MALE" THEN "male" ELSE gender

\* a slip: break instead of continue after a goal whose calculation fails
LinesToFirstError(lines) ==
    SubSeq(lines, 1,
           Len(lines) - Cardinality({ i \in 1..Len(lines) :
               \E j \in 1..(i - 1) : lines[j].kind = "error" }))
StoppingAtFirstError(gs, contribution_percentage_change, gender, time_period_months, annual_return_rate) ==
    IF Lower(gender) \notin { "male", "female" }
    THEN [status |-> "ERROR", message |-> "Gender must be 'male' or 'female'"]
    ELSE [status |-> "REPORT",
          change_type |-> IF time_period_months = << >> THEN "permanent"
                          ELSE "temporary",
          results |-> LinesToFirstError(
              [i \in 1..Len(gs) |->
                  GoalLine(gs[i],
                      get_num_of_months_to_reach_goal(
                          gs[i].total_monthly_contribution, gs[i].target_amount,
                          annual_return_rate, gs[i].current_corpus),
                      ChangedTotal(gs[i], Lower(gender),
                                   contribution_percentage_change),
                      time_period_months, annual_return_rate)])]

\* the whole call: the text returned, as its lines
calculate_goal_impact_with_contribution_change(gs, contribution_percentage_change, gender, time_period_months, annual_return_rate) ==
    IF Lower(gender) \notin { "male", "female" }
    THEN [status |-> "ERROR", message |-> "Gender must be 'male' or 'female'"]
    ELSE [status |-> "REPORT",
          change_type |-> IF time_period_months = << >> THEN "permanent"
                          ELSE "temporary",
          results |->
              [i \in 1..Len(gs) |->
                  GoalLine(gs[i],
                      get_num_of_months_to_reach_goal(
                          gs[i].total_monthly_contribution, gs[i].target_amount,
                          annual_return_rate, gs[i].current_corpus),
                      ChangedTotal(gs[i], Lower(gender),
                                   contribution_percentage_change),
                      time_period_months, annual_return_rate)]]

----------------------------------------------------------------------------
(* Session start: __init__, lines 101-130 *)

GoalNames(gs) == { gs[i].name : i \in 1..Len(gs) }

\* lines 111-115
LoadedGoals(old_file) == IF old_file.kind = "json" THEN JsonLoad(old_file) ELSE << >>

\* lines 118-120
BootstrapIfNoDefault(loaded) ==
    IF /\ WealthGoalName \notin GoalNames(loaded)
       /\ RetirementGoalName \notin GoalNames(loaded)
    THEN create_initial_goals
    ELSE loaded

SessionGoals(old_file) == BootstrapIfNoDefault(LoadedGoals(old_file))

\* lines 114-116
FileAfterLoad(old_file, write_ok) ==
    IF old_file.kind = "json" THEN old_file
    ELSE _save_goals_to_file(<< >>, old_file, write_ok)

pledged_total_contribution(gs) ==
    RSum([i \in 1..Len(gs) |->
        IF gs[i].pledged THEN gs[i].total_monthly_contribution ELSE Zero])

\* lines 104-130: the fields of a new engine instance
SessionOf(gs, mt, ft, file_after) ==
    [goals |-> gs,
     male |-> RSub(mt, pledged_male_contribution(gs)),
     female |-> RSub(ft, pledged_female_contribution(gs)),
     total |-> RSub(RAdd(mt, ft), pledged_total_contribution(gs)),
     file |-> file_after,
     assets |-> analyze_and_structure_assets_by_category(MaleSchemes,
                                                         FemaleSchemes)]

Session(old_file, mt, ft, write_ok) ==
    SessionOf(SessionGoals(old_file), mt, ft, FileAfterLoad(old_file, write_ok))

----------------------------------------------------------------------------
(* Inputs *)

\* (male, female) income minus expenses, in units of 1000 rupees: nothing to
\* invest, both partners investing, one partner investing
PoolInputs == { << Zero, Zero >>, << R(20), R(30) >>, << R(20), Zero >> }

GoalNameInputs == { "Emergency Fund", "Vacation Fund" }

LadderMixed == << <<"Mutual Fund", "Large Cap", Rat(7, 10)>>,
                  <<"Mutual Fund", "Small Cap", Rat(3, 10)>> >>
\* percentages that sum to 0.5: rejected by the blender
LadderShort == << <<"Fixed Deposit", "N/A", Rat(1, 2)>> >>
LadderInputs == { LadderMixed, LadderShort }

ProposeTargetInputs == { Zero, R(500) }
CommitTargetInputs == { R(500) }

----------------------------------------------------------------------------
(* The state machine *)

\* the fields of the engine after __init__
SessionState(mt, ft, s) ==
    /\ male_total = mt
    /\ female_total = ft
    /\ goals = s.goals
    /\ male_monthly_contribution = s.male
    /\ female_monthly_contribution = s.female
    /\ total_monthly_contribution = s.total
    /\ file = s.file
    /\ ASSETS = s.assets
    /\ final_discussion = [present |-> FALSE]

InitialState(mt, ft, s) ==
    /\ SessionState(mt, ft, s)
    /\ lastCall = [op |-> "__init__"]

\* the first session: no document yet, or one that does not parse
Init ==
    \E pool \in PoolInputs,
       old_file \in { [kind |-> "absent"], [kind |-> "garbage"] },
       write_ok \in BOOLEAN :
       InitialState(pool[1], pool[2],
                    Session(old_file, pool[1], pool[2], write_ok))

StartSession(s) ==
    /\ goals' = s.goals
    /\ male_monthly_contribution' = s.male
    /\ female_monthly_contribution' = s.female
    /\ total_monthly_contribution' = s.total
    /\ file' = s.file
    /\ ASSETS' = s.assets
    /\ final_discussion' = [present |-> FALSE]
    /\ lastCall' = [op |-> "__init__"]
    /\ UNCHANGED << male_total, female_total >>

\* a new engine instance over the same partners and the document as it is
NewSession(write_ok) ==
    StartSession(Session(file, male_total, female_total, write_ok))

\* a slip: the redistributed store is saved by the proposal
StagingAndSaving(o, goal_name, asset_ladder, target_amount) ==
    /\ goals' = o.goals
    /\ male_monthly_contribution' = o.male
    /\ female_monthly_contribution' = o.female
    /\ final_discussion' = o.fd
    /\ lastCall' = [op |-> "propose_goal",
                    args |-> << goal_name, asset_ladder, target_amount >>,
                    same_as_previous |->
                        /\ lastCall.op = "propose_goal"
                        /\ lastCall.args =
                               << goal_name, asset_ladder, target_amount >>,
                    redistributed |-> o.redistributed,
                    result |-> o.result]
    /\ file' = IF o.redistributed THEN JsonDump(o.goals) ELSE file
    /\ UNCHANGED << male_total, female_total, total_monthly_contribution,
                    ASSETS >>

\* lines 853-945: the fields the call assigns
Staging(o, goal_name, asset_ladder, target_amount) ==
    /\ goals' = o.goals
    /\ male_monthly_contribution' = o.male
    /\ female_monthly_contribution' = o.female
    /\ final_discussion' = o.fd
    /\ lastCall' = [op |-> "propose_goal",
                    args |-> << goal_name, asset_ladder, target_amount >>,
                    same_as_previous |->
                        /\ lastCall.op = "propose_goal"
                        /\ lastCall.args =
                               << goal_name, asset_ladder, target_amount >>,
                    redistributed |-> o.redistributed,
                    result |-> o.result]
    /\ UNCHANGED << male_total, female_total, total_monthly_contribution,
                    ASSETS, file >>

\* propose_goal
calculate_months_to_reach_goal_with_asset_ladder(goal_name, asset_ladder, target_amount) ==
    Staging(StageGoal(goals, male_monthly_contribution,
                      female_monthly_contribution, final_discussion, ASSETS,
                      goal_name, asset_ladder, target_amount),
            goal_name, asset_ladder, target_amount)

Committing(o, target_amount, write_ok) ==
    /\ goals' = o.goals
    /\ male_monthly_contribution' = o.male
    /\ female_monthly_contribution' = o.female
    /\ total_monthly_contribution' = o.total
    /\ file' = o.file
    /\ lastCall' = [op |-> "commit_goal", args |-> << target_amount >>,
                    write_ok |-> write_ok, result |-> o.result]
    /\ UNCHANGED << male_total, female_total, final_discussion, ASSETS >>

\* commit_goal
create_goal(target_amount, write_ok) ==
    /\ Len(goals) < MaxGoals
    /\ Committing(CommitGoal(goals, male_monthly_contribution,
                             female_monthly_contribution,
                             total_monthly_contribution, final_discussion,
                             ASSETS, file, target_amount, write_ok),
                  target_amount, write_ok)

Next ==
    \/ \E goal_name \in GoalNameInputs, asset_ladder \in LadderInputs,
          target_amount \in ProposeTargetInputs :
          calculate_months_to_reach_goal_with_asset_ladder(goal_name, asset_ladder,
                                                           target_amount)
    \/ \E target_amount \in CommitTargetInputs, write_ok \in BOOLEAN :
          create_goal(target_amount, write_ok)
    \/ \E write_ok \in BOOLEAN : NewSession(write_ok)

Spec == Init /\ [][Next]_vars

----------------------------------------------------------------------------
(* The same operations called with malformed arguments as well: an empty goal
   name, an empty ladder, a target that is not positive.  The store is kept
   to MaxStored goals. *)

MaxStored == 3

MalformedNameInputs == GoalNameInputs \cup { "" }
MalformedLadderInputs == LadderInputs \cup { << >> }
MalformedTargetInputs == CommitTargetInputs \cup { Zero, R(-500) }

MalformedNext ==
    \/ \E goal_name \in MalformedNameInputs,
          asset_ladder \in MalformedLadderInputs,
          target_amount \in MalformedTargetInputs :
          calculate_months_to_reach_goal_with_asset_ladder(goal_name, asset_ladder,
                                                           target_amount)
    \/ \E target_amount \in MalformedTargetInputs, write_ok \in BOOLEAN :
          Len(goals) < MaxStored /\ create_goal(target_amount, write_ok)

MalformedSpec == Init /\ [][MalformedNext]_vars

----------------------------------------------------------------------------
(* The two calculators called on their own, in one session: they read ASSETS
   and assign nothing.  lastCall holds the call and what it returned. *)

\* ladders of up to MaxLadderLen lines over these entries and percentages
MaxLadderLen == 3

LadderEntryInputs ==
    { <<"Mutual Fund", "Large Cap">>, <<"Mutual Fund", "Small Cap">>,
      <<"Mutual Fund", "Mid Cap">>, <<"Gold", "N/A">> }

LadderPercentageInputs ==
    { Rat(-1, 10), Rat(1, 10), Rat(3, 10), Rat(7, 10), Rat(8, 10),
      Rat(1, 2000), Rat(11, 10) }

LadderLineInputs ==
    { << e[1], e[2], p >> : e \in LadderEntryInputs, p \in LadderPercentageInputs }

LaddersOfLen(n) == [1..n -> LadderLineInputs]

\* one session, about to call the blender on asset_ladder
BlenderSession(asset_ladder) ==
    /\ SessionState(R(20), R(30),
                    Session([kind |-> "absent"], R(20), R(30), FALSE))
    /\ lastCall = [op |-> "call", args |-> << asset_ladder >>]

BlenderInit ==
    \E n \in 0..MaxLadderLen : \E asset_ladder \in LaddersOfLen(n) :
        BlenderSession(asset_ladder)

\* calculate_weighted_portfolio_return(asset_ladder)
BlendedReturnCall ==
    /\ lastCall.op = "call"
    /\ lastCall' = [op |-> "blended_return", args |-> lastCall.args,
                    result |-> calculate_weighted_portfolio_return(ASSETS,
                                   lastCall.args[1])]
    /\ UNCHANGED << male_total, female_total, male_monthly_contribution,
                    female_monthly_contribution, total_monthly_contribution,
                    goals, final_discussion, ASSETS, file >>

BlenderNext == BlendedReturnCall

BlenderSpec == BlenderInit /\ [][BlenderNext]_vars

----------------------------------------------------------------------------
(* Sessions in which the impact analyzer is called as well *)

MaxAnalyzed == 3
AnalyzerTargetInputs == { R(500), R(1) }
PercentageChangeInputs == { Rat(15, 100), Zero, R(-1) }
GenderInputs == { "MALE", "female", "other" }
TimePeriodInputs == { << >>, << 6 >> }
AnalyzerRateInputs == { Zero, Rat(12, 100), Rat(-12, 100) }

\* analyze_contribution_change; the call reads self.goals alone, so the model
\* takes one analysis between two other calls
AnalyzingContributionChange(contribution_percentage_change, gender, time_period_months, annual_return_rate) ==
    /\ lastCall.op # "analyze_contribution_change"
    /\ lastCall' = [op |-> "analyze_contribution_change",
                    args |-> << contribution_percentage_change, gender,
                                time_period_months, annual_return_rate >>,
                    result |-> calculate_goal_impact_with_contribution_change(
                                   goals, contribution_percentage_change, gender,
                                   time_period_months, annual_return_rate)]
    /\ UNCHANGED << male_total, female_total, male_monthly_contribution,
                    female_monthly_contribution, total_monthly_contribution,
                    goals, final_discussion, ASSETS, file >>

AnalyzerNext ==
    \/ \E target_amount \in CommitTargetInputs :
          calculate_months_to_reach_goal_with_asset_ladder("Emergency Fund",
                                                           LadderMixed,
                                                           target_amount)
    \/ \E target_amount \in AnalyzerTargetInputs :
          Len(goals) < MaxAnalyzed /\ create_goal(target_amount, TRUE)
    \/ \E contribution_percentage_change \in PercentageChangeInputs,
          gender \in GenderInputs,
          time_period_months \in TimePeriodInputs,
          annual_return_rate \in AnalyzerRateInputs :
          AnalyzingContributionChange(contribution_percentage_change, gender,
                                      time_period_months, annual_return_rate)

AnalyzerSpec == Init /\ [][AnalyzerNext]_vars

----------------------------------------------------------------------------
(* Sessions that start over a goals document found on disk *)

\* a goal as create_goal stores it (lines 370-380), under a name of its own
StoredGoal ==
    [name |-> "Emergency Fund",
     target_amount |-> R(500),
     male_assets |-> << [asset_name |-> "male small cap fund",
                         amount |-> R(10)] >>,
     female_assets |-> << [asset_name |-> "female index fund",
                           amount |-> R(10)] >>,
     current_corpus |-> Zero,
     male_monthly_contribution |-> R(10),
     female_monthly_contribution |-> R(10),
     total_monthly_contribution |-> R(20),
     pledged |-> TRUE]

\* the document self.goals_file_path names when __init__ opens it: none, one
\* that does not parse, an empty list, the two default goals, one other goal
DocumentInputs ==
    { [kind |-> "absent"], [kind |-> "garbage"], JsonDump(<< >>),
      JsonDump(create_initial_goals), JsonDump(<< StoredGoal >>) }

ReloadInit ==
    \E pool \in PoolInputs, old_file \in DocumentInputs, write_ok \in BOOLEAN :
       InitialState(pool[1], pool[2],
                    Session(old_file, pool[1], pool[2], write_ok))

ReloadNext ==
    \/ \E goal_name \in GoalNameInputs, target_amount \in ProposeTargetInputs :
          calculate_months_to_reach_goal_with_asset_ladder(goal_name, LadderMixed,
                                                           target_amount)
    \/ \E target_amount \in CommitTargetInputs, write_ok \in BOOLEAN :
          Len(goals) < MaxStored /\ create_goal(target_amount, write_ok)
    \/ \E write_ok \in BOOLEAN : NewSession(write_ok)

ReloadSpec == ReloadInit /\ [][ReloadNext]_vars

----------------------------------------------------------------------------
(* A second engine instance constructed in the same process *)

\* the held names the catalog may grow to
MaxHeld == 12

RECURSIVE HeldCount(_)
HeldCount(assets) ==
    IF assets = << >> THEN 0
    ELSE Len(Head(assets).male_existing_options)
         + Len(Head(assets).female_existing_options) + HeldCount(Tail(assets))

\* the holdings of another couple
OtherMaleSchemes ==
    << [longName |-> "other male mid cap fund", assetClass |-> "EQUITY",
        fundhouseDefinedRiskLevel |-> "MODERATE_RISK"] >>
OtherFemaleSchemes == << >>

CoupleInputs ==
    { << MaleSchemes, FemaleSchemes >>, << OtherMaleSchemes, OtherFemaleSchemes >> }

\* lines 312-313 in a later instance: self.ASSETS is read before the
\* instance has the attribute, which gives the class attribute, the list
\* the earlier instance's self.ASSETS names; the names are appended to it
StructuredInPlace(class_assets, male_schemes, female_schemes) ==
    _extract_user_holdings(female_schemes,
        _extract_user_holdings(male_schemes, class_assets, TRUE), TRUE)

\* GoalInvestmentStrategyAgent(...) for a couple while this engine lives: the
\* new instance has goals, trackers and a discussion of its own, opens the
\* same document, and its ASSETS is this engine's list
ConstructingOther(couple, write_ok) ==
    /\ HeldCount(ASSETS) < MaxHeld
    /\ ASSETS' = StructuredInPlace(ASSETS, couple[1], couple[2])
    /\ file' = FileAfterLoad(file, write_ok)
    /\ lastCall' = [op |-> "other.__init__", couple |-> couple,
                    ASSETS |-> StructuredInPlace(ASSETS, couple[1], couple[2])]
    /\ UNCHANGED << male_total, female_total, male_monthly_contribution,
                    female_monthly_contribution, total_monthly_contribution,
                    goals, final_discussion >>

InstancesNext ==
    \/ \E goal_name \in GoalNameInputs, target_amount \in ProposeTargetInputs :
          calculate_months_to_reach_goal_with_asset_ladder(goal_name, LadderMixed,
                                                           target_amount)
    \/ \E target_amount \in CommitTargetInputs, write_ok \in BOOLEAN :
          Len(goals) < MaxStored /\ create_goal(target_amount, write_ok)
    \/ \E couple \in CoupleInputs, write_ok \in BOOLEAN :
          ConstructingOther(couple, write_ok)

InstancesSpec == Init /\ [][InstancesNext]_vars

----------------------------------------------------------------------------
(* Two proposals made by two threads against one engine.  The class holds   *)
(* no lock; a thread can be switched out between the test of line 853 and   *)
(* the lines after it (line 854 prints).  A call is two steps here: the     *)
(* test, and the rest of the call from the branch the test chose.           *)

ThreadIds == { 1, 2 }

ThreadGoalName(t) == IF t = 1 THEN "Emergency Fund" ELSE "Vacation Fund"

\* a call has passed the test of line 853 and has not returned
InFlight ==
    /\ lastCall.op = "concurrent"
    /\ \E t \in ThreadIds : lastCall.calls[t].pc = "entered"

\* one thread has called and the other has yet to
RoundOpen ==
    /\ lastCall.op = "concurrent"
    /\ \E t \in ThreadIds : lastCall.calls[t].pc = "idle"

\* the engine as the first of the two calls finds it
Snapshot ==
    [goals |-> goals, male |-> male_monthly_contribution,
     female |-> female_monthly_contribution, fd |-> final_discussion]

Round ==
    IF RoundOpen THEN lastCall
    ELSE [op |-> "concurrent", before |-> Snapshot,
          calls |-> [t \in ThreadIds |-> [pc |-> "idle"]]]

\* lines 850-853 in thread t: the target is positive, the trackers are read
EnteringProposal(t, target_amount) ==
    /\ Round.calls[t].pc = "idle"
    /\ lastCall' =
           [Round EXCEPT !.calls[t] =
               [pc |-> "entered",
                args |-> << ThreadGoalName(t), LadderMixed, target_amount >>,
                exhausted |-> PoolExhausted(male_monthly_contribution,
                                            female_monthly_contribution)]]
    /\ UNCHANGED << male_total, female_total, male_monthly_contribution,
                    female_monthly_contribution, total_monthly_contribution,
                    goals, final_discussion, ASSETS, file >>

Leaving(t, o) ==
    /\ goals' = o.goals
    /\ male_monthly_contribution' = o.male
    /\ female_monthly_contribution' = o.female
    /\ final_discussion' = o.fd
    /\ lastCall' =
           [lastCall EXCEPT !.calls[t] =
               [pc |-> "done", args |-> lastCall.calls[t].args,
                redistributed |-> o.redistributed, result |-> o.result]]
    /\ UNCHANGED << male_total, female_total, total_monthly_contribution,
                    ASSETS, file >>

\* lines 854-945 in thread t
LeavingProposal(t) ==
    /\ lastCall.op = "concurrent"
    /\ lastCall.calls[t].pc = "entered"
    /\ Leaving(t, StageAfterTest(goals, male_monthly_contribution,
                                 female_monthly_contribution, final_discussion,
                                 ASSETS, lastCall.calls[t].exhausted,
                                 lastCall.calls[t].args[1],
                                 lastCall.calls[t].args[2],
                                 lastCall.calls[t].args[3]))

ThreadsNext ==
    \/ \E target_amount \in CommitTargetInputs :
          /\ ~ InFlight
          /\ calculate_months_to_reach_goal_with_asset_ladder("Emergency Fund",
                                                              LadderMixed,
                                                              target_amount)
    \/ \E target_amount \in CommitTargetInputs, write_ok \in BOOLEAN :
          /\ ~ InFlight
          /\ Len(goals) < MaxGoals - 1
          /\ create_goal(target_amount, write_ok)
    \/ \E t \in ThreadIds, target_amount \in CommitTargetInputs :
          EnteringProposal(t, target_amount)
    \/ \E t \in ThreadIds : LeavingProposal(t)

ThreadsSpec == Init /\ [][ThreadsNext]_vars

----------------------------------------------------------------------------
(* The timeline solver alone: a session in which one call of
   get_num_of_months_to_reach_goal is made.  Amounts are in rupees. *)

ContributionInputs == { Zero, R(10000), R(20000), R(100000) }
SolverTargetInputs == { R(50000), R(120000), R(1000000) }
RateInputs == { Zero, Rat(12, 100), Rat(24, 100) }
CorpusInputs == { Zero, R(10000), R(1000000) }

SolverSession(monthly_investment, target_amount, annual_return_rate, current_corpus) ==
    /\ SessionState(R(20), R(30),
                    Session([kind |-> "absent"], R(20), R(30), FALSE))
    /\ lastCall = [op |-> "call",
                   args |-> << monthly_investment, target_amount,
                               annual_return_rate, current_corpus >>]

SolverInit ==
    \E monthly_investment \in ContributionInputs :
    \E target_amount \in SolverTargetInputs :
    \E annual_return_rate \in RateInputs :
    \E current_corpus \in CorpusInputs :
        SolverSession(monthly_investment, target_amount,
                      annual_return_rate, current_corpus)

\* get_num_of_months_to_reach_goal(monthly_investment, target_amount,
\*                                 annual_return_rate, current_corpus)
MonthsToTargetCall ==
    /\ lastCall.op = "call"
    /\ lastCall' = [op |-> "months_to_target", args |-> lastCall.args,
                    result |-> get_num_of_months_to_reach_goal(
                                   lastCall.args[1], lastCall.args[2],
                                   lastCall.args[3], lastCall.args[4])]
    /\ UNCHANGED << male_total, female_total, male_monthly_contribution,
                    female_monthly_contribution, total_monthly_contribution,
                    goals, final_discussion, ASSETS, file >>

SolverNext == MonthsToTargetCall

SolverSpec == SolverInit /\ [][SolverNext]_vars

\* calculate_weighted_portfolio_return(asset_ladder), in binary64
BlendedReturnCall64 ==
    /\ lastCall.op = "call"
    /\ lastCall' = [op |-> "blended_return64", args |-> lastCall.args,
                    result |-> calculate_weighted_portfolio_return64(ASSETS,
                                   lastCall.args[1])]
    /\ UNCHANGED << male_total, female_total, male_monthly_contribution,
                    female_monthly_contribution, total_monthly_contribution,
                    goals, final_discussion, ASSETS, file >>

Blender64Next == BlendedReturnCall64

Blender64Spec == BlenderInit /\ [][Blender64Next]_vars

----------------------------------------------------------------------------
(* Properties *)

PoolTotal == RAdd(male_total, female_total)
PledgedSum == pledged_total_contribution(goals)

ProposeDone == lastCall.op = "propose_goal"
CommitDone == lastCall.op = "commit_goal"
Created == CommitDone /\ lastCall.result.status = "CREATED"
\* the last call was a proposal that redistributed the pool and staged a goal
RedistributedAndStaged ==
    /\ ProposeDone
    /\ lastCall.redistributed
    /\ lastCall.result.status = "SUCCESS"

\* C1: commit_goal in a session in which no proposal has succeeded returns the
\* "finalise the asset ladder first" error and leaves the goals, the two
\* remaining-capacity trackers and the document as they were.
C1_CommitWithoutProposalIsAnError ==
    [][(CommitDone' /\ ~final_discussion.present) =>
          /\ lastCall'.result.status = "ERROR"
          /\ goals' = goals
          /\ male_monthly_contribution' = male_monthly_contribution
          /\ female_monthly_contribution' = female_monthly_contribution
          /\ file' = file]_vars

\* C2: a staged discussion is consumed once: a commit_goal that follows a
\* successful commit_goal with no proposal in between creates no goal.
C2_StagedDiscussionConsumedOnce ==
    [][(Created /\ CommitDone') =>
          /\ lastCall'.result.status # "CREATED"
          /\ goals' = goals]_vars

\* C3: the total_monthly_contribution of the pledged goals sums to at most
\* the pool's total, male_total + female_total, in every reachable state.
C3_PledgedWithinPool == RLe(PledgedSum, PoolTotal)

\* C4: when a proposal has redistributed the pool over k pledged goals and the
\* new goal is committed, the k+1 pledged goals' total_monthly_contribution
\* sum to the pool's total.
C4_RedistributionConserves ==
    [][(RedistributedAndStaged /\ CommitDone') =>
          /\ no_of_pledged(goals') = no_of_pledged(goals) + 1
          /\ pledged_total_contribution(goals') = PoolTotal]_vars

C5_LinesDivided(old, new, n) ==
    /\ Len(new) = Len(old)
    /\ \A j \in 1..Len(old) :
          /\ new[j].asset_name = old[j].asset_name
          /\ new[j].amount = RDiv(old[j].amount, R(n))

C5_GoalDivided(old, new, n) ==
    /\ new.name = old.name
    /\ new.target_amount = old.target_amount
    /\ new.current_corpus = old.current_corpus
    /\ new.pledged
    /\ new.male_monthly_contribution = RDiv(old.male_monthly_contribution, R(n))
    /\ new.female_monthly_contribution =
           RDiv(old.female_monthly_contribution, R(n))
    /\ new.total_monthly_contribution =
           RDiv(old.total_monthly_contribution, R(n))
    /\ C5_LinesDivided(old.male_assets, new.male_assets, n)
    /\ C5_LinesDivided(old.female_assets, new.female_assets, n)

\* C5: a proposal that redistributes with k pledged goals divides each pledged
\* goal's male, female and total contribution and every amount of its
\* allocation lines by k+1 and leaves every goal that is not pledged as it was.
C5_RedistributionDividesPledgedGoals ==
    [][(ProposeDone' /\ lastCall'.redistributed) =>
          /\ Len(goals') = Len(goals)
          /\ \A i \in 1..Len(goals) :
                IF goals[i].pledged
                THEN C5_GoalDivided(goals[i], goals'[i], no_of_pledged(goals) + 1)
                ELSE goals'[i] = goals[i]]_vars

\* a redistribution has divided a pledged goal with allocation lines beside a
\* goal that is not pledged
C5_Witness ==
    /\ ProposeDone
    /\ lastCall.redistributed
    /\ \E i \in Pledged(goals) :
          /\ goals[i].male_assets # << >>
          /\ RLt(Zero, goals[i].male_assets[1].amount)
          /\ RLt(goals[i].male_monthly_contribution, male_total)
    /\ \E i \in 1..Len(goals) :
          ~goals[i].pledged /\ RLt(Zero, goals[i].total_monthly_contribution)

\* C6: one pledged goal holds the whole pool; a second goal is proposed and
\* committed: each of the two pledged goals holds half of the pool, for each
\* partner and in total.
C6_SecondGoalHalvesThePool ==
    [][(RedistributedAndStaged /\ no_of_pledged(goals) = 1 /\ CommitDone') =>
          /\ no_of_pledged(goals') = 2
          /\ \A i \in Pledged(goals') :
                /\ goals'[i].male_monthly_contribution = RDiv(male_total, R(2))
                /\ goals'[i].female_monthly_contribution =
                       RDiv(female_total, R(2))
                /\ goals'[i].total_monthly_contribution =
                       RDiv(PoolTotal, R(2))]_vars

C6_Witness ==
    /\ Created
    /\ no_of_pledged(goals) = 2
    /\ RLt(Zero, male_total)
    /\ RLt(Zero, female_total)
    /\ \A i \in Pledged(goals) :
          /\ goals[i].male_monthly_contribution = RDiv(male_total, R(2))
          /\ goals[i].female_monthly_contribution = RDiv(female_total, R(2))

\* C7: a proposal made when the pool is used up leaves the existing goals'
\* contributions as they were; they change only when the new goal is created.
C7_ProposalLeavesGoalsAlone ==
    [][ProposeDone' => goals' = goals]_vars

\* C8: no proposal changes the goals document, whether it fails, succeeds or
\* redistributes; the document changes only in a commit (or when a session
\* starts without a readable document).
C8_OnlyCommitWritesTheDocument ==
    [][/\ ProposeDone' => file' = file
       /\ file' # file => lastCall'.op \in { "commit_goal", "__init__" }]_vars

\* a proposal has redistributed the goals in memory and the document still
\* holds the goals as they were
C8_Witness ==
    /\ ProposeDone
    /\ lastCall.redistributed
    /\ file.kind = "json"
    /\ JsonLoad(file) # goals

\* C9: two proposals in a row with the same arguments return the same report.
C9_ProposalIsIdempotent ==
    [][(ProposeDone /\ ProposeDone' /\ lastCall'.args = lastCall.args) =>
          lastCall'.result = lastCall.result]_vars

\* the same proposal was made twice over a pool that a redistribution has
\* split between pledged goals and the staged one
C9_Witness ==
    /\ ProposeDone
    /\ lastCall.same_as_previous
    /\ lastCall.result.status = "SUCCESS"
    /\ no_of_pledged(goals) >= 1
    /\ RLt(PledgedSum, PoolTotal)

\* C10: a session started after a commit whose write succeeded holds a goal
\* equal in every field to the committed one.
C10_CommittedGoalSurvivesReload ==
    [][(Created /\ lastCall.write_ok /\ lastCall'.op = "__init__") =>
          \E i \in 1..Len(goals') : goals'[i] = goals[Len(goals)]]_vars

\* a session started from a document that holds a committed goal
C10_Witness ==
    /\ lastCall.op = "__init__"
    /\ file.kind = "json"
    /\ \E i \in Pledged(goals) :
          /\ goals[i].male_assets # << >>
          /\ RLt(Zero, goals[i].total_monthly_contribution)

\* C11: no engine operation ends by raising an exception to its caller; every
\* failure comes back as a result value.
C11_NoOperationRaises ==
    lastCall.op \in { "propose_goal", "commit_goal" } =>
        lastCall.result.status # "RAISED"

NoSurplusError == Error("You don't have any amount to invest")

C13_MalformedRequestRejected ==
    [][/\ (/\ ProposeDone'
           /\ \/ lastCall'.args[1] = ""
              \/ lastCall'.args[2] = << >>
              \/ RLe(lastCall'.args[3], Zero)) =>
             /\ lastCall'.result.status = "ERROR"
             /\ final_discussion' = final_discussion
       /\ (CommitDone' /\ RLe(lastCall'.args[1], Zero)) =>
             /\ lastCall'.result.status # "CREATED"
             /\ goals' = goals]_vars

BlendDone == lastCall.op = "blended_return"

C14_InCatalog(line) ==
    \E i \in 1..Len(ASSETS) :
        /\ ASSETS[i].asset_class = line[1]
        /\ ASSETS[i].asset_subtype = line[2]

C14_ValidLadder(ladder) ==
    /\ \A i \in 1..Len(ladder) :
          /\ RLe(Zero, ladder[i][3])
          /\ RLe(ladder[i][3], One)
          /\ C14_InCatalog(ladder[i])
    /\ RLe(RAbs(RSub(RSum([i \in 1..Len(ladder) |-> ladder[i][3]]), One)),
           Rat(1, 1000))

\* C14: the blender succeeds exactly when every line's percentage is in [0,1],
\* every line names an entry of the catalog and the percentages sum to 1
\* within 0.001; otherwise (the empty ladder too) it returns an error and no
\* CAGR.
C14_BlenderSucceedsIffValid ==
    BlendDone =>
        /\ lastCall.result.status = "SUCCESS" <=> C14_ValidLadder(lastCall.args[1])
        /\ lastCall.result.status \in { "SUCCESS", "ERROR" }
        /\ lastCall.result.status = "ERROR" =>
               "portfolio_expected_cagr" \notin DOMAIN lastCall.result

\* a ladder of three valid lines whose percentages miss 1 by 0.0005 is blended
C14_Witness ==
    /\ BlendDone
    /\ Len(lastCall.args[1]) = 3
    /\ lastCall.result.status = "SUCCESS"
    /\ RSum([i \in 1..3 |-> lastCall.args[1][i][3]]) # One

Blend64Done == lastCall.op = "blended_return64"

\* the ladder with its lines in the order p
Reordered(ladder, p) == [i \in 1..Len(ladder) |-> ladder[p[i]]]

C15_SameBlend(r, q) ==
    /\ q.status = r.status
    /\ r.status = "SUCCESS" =>
           q.portfolio_expected_cagr = r.portfolio_expected_cagr

\* C15: the blender's status and CAGR do not depend on the order of the
\* ladder's lines: every reordering of the ladder returns the same status and
\* the same CAGR.
C15_BlendIsOrderIndependent ==
    Blend64Done =>
        \A p \in Permutations(1..Len(lastCall.args[1])) :
            C15_SameBlend(lastCall.result,
                calculate_weighted_portfolio_return64(ASSETS,
                    Reordered(lastCall.args[1], p)))

SolveDone == lastCall.op = "months_to_target"

\* the months of a second call are not above (below) the months of the call
\* made, when both calls succeed
C16_NotMore(r) ==
    lastCall.result.status = "SUCCESS" /\ r.status = "SUCCESS" =>
        ~ MonthsLt(lastCall.result.months_needed, r.months_needed)
C16_NotFewer(r) ==
    lastCall.result.status = "SUCCESS" /\ r.status = "SUCCESS" =>
        ~ MonthsLt(r.months_needed, lastCall.result.months_needed)

C16_InContribution ==
    SolveDone =>
        \A monthly_investment \in ContributionInputs :
            RLt(lastCall.args[1], monthly_investment) =>
                C16_NotMore(get_num_of_months_to_reach_goal(monthly_investment,
                    lastCall.args[2], lastCall.args[3], lastCall.args[4]))
C16_InTarget ==
    SolveDone =>
        \A target_amount \in SolverTargetInputs :
            RLt(lastCall.args[2], target_amount) =>
                C16_NotFewer(get_num_of_months_to_reach_goal(lastCall.args[1],
                    target_amount, lastCall.args[3], lastCall.args[4]))
C16_InRate ==
    SolveDone =>
        \A annual_return_rate \in RateInputs :
            RLt(lastCall.args[3], annual_return_rate) =>
                C16_NotMore(get_num_of_months_to_reach_goal(lastCall.args[1],
                    lastCall.args[2], annual_return_rate, lastCall.args[4]))

\* C16: the solver is monotonic: with the other arguments fixed, a larger
\* monthly contribution or a larger annual rate never gives more months, and
\* a larger target never gives fewer.
C16_SolverMonotonic == C16_InContribution /\ C16_InRate /\ C16_InTarget

C17_Scenario ==
    /\ SolveDone
    /\ lastCall.args = << R(10000), R(1000000), Rat(12, 100), Zero >>

\* C17: months_to_target(10000, 1000000, 0.12, 0) succeeds with the value of
\* the closed form, log((target * r + pmt) / (corpus * r + pmt)) / log(1 + r)
\* at r = 0.01, which is log(2) / log(1.01): between 69.6 and 69.7 months.
C17_ScenarioMonths ==
    C17_Scenario =>
        /\ lastCall.result.status = "SUCCESS"
        /\ lastCall.result.months_needed = LogMonths(R(2), Rat(101, 100))
        /\ RatLtMonths(Rat(696, 10), lastCall.result.months_needed)
        /\ MonthsLtRat(lastCall.result.months_needed, Rat(697, 10))

\* the scenario's call has been made and has returned months
C17_Witness ==
    /\ C17_Scenario
    /\ lastCall.result.status = "SUCCESS"
    /\ lastCall.result.months_needed.kind = "log"

\* C17 as stated: the scenario returns about 58.3 months, here any value
\* between 58 and 59.
C17_About58Months ==
    C17_Scenario =>
        /\ lastCall.result.status = "SUCCESS"
        /\ RatLtMonths(R(58), lastCall.result.months_needed)
        /\ MonthsLtRat(lastCall.result.months_needed, R(59))

\* the schemes of one partner that the rules of lines 275-286 place in product
C18_HeldBy(schemes, product) ==
    { i \in 1..Len(schemes) : HoldingMatches(schemes[i], product) }

\* the partner's first held instrument of the product, else its first default
C18_Instrument(schemes, product, held) ==
    IF held = { } THEN product.default_options[1]
    ELSE schemes[CHOOSE i \in held : \A j \in held : i <= j].longName

C18_Line(schemes, product, contribution, line) ==
    [asset_name |-> C18_Instrument(schemes, product, C18_HeldBy(schemes, product)),
     amount |-> RMul(contribution, line[3])]

C18_Lines(schemes, assets, contribution, ladder, lines) ==
    /\ Len(lines) = Len(ladder)
    /\ \A i \in 1..Len(ladder) :
           lines[i] = C18_Line(schemes,
                               Products(assets, ladder[i][1], ladder[i][2])[1],
                               contribution, ladder[i])

\* C18: a commit generates, for each partner, exactly one allocation line per
\* line of the staged ladder: against the partner's first held instrument of
\* the catalog entry when the partner holds one, otherwise against the entry's
\* first default instrument, with amount = the partner's staged contribution
\* times the line's percentage.
C18_OneLinePerLadderLine ==
    Created =>
        /\ C18_Lines(MaleSchemes, CLASS_ASSETS,
                     final_discussion.male_monthly_contribution,
                     final_discussion.asset_ladder,
                     goals[Len(goals)].male_assets)
        /\ C18_Lines(FemaleSchemes, CLASS_ASSETS,
                     final_discussion.female_monthly_contribution,
                     final_discussion.asset_ladder,
                     goals[Len(goals)].female_assets)

\* the goal that a commit stores for the staged discussion fd
C19_GoalOfStaged(g, fd) ==
    /\ g.pledged = TRUE
    /\ g.current_corpus = Zero
    /\ g.male_monthly_contribution = fd.male_monthly_contribution
    /\ g.female_monthly_contribution = fd.female_monthly_contribution
    /\ g.total_monthly_contribution =
           RAdd(fd.male_monthly_contribution, fd.female_monthly_contribution)

\* the step appends one goal for the staged discussion, keeps the goals stored
\* before, and takes the staged contributions off the trackers
C19_AppendsAndDecrements ==
    /\ Len(goals') = Len(goals) + 1
    /\ SubSeq(goals', 1, Len(goals)) = goals
    /\ C19_GoalOfStaged(goals'[Len(goals')], final_discussion)
    /\ male_monthly_contribution' =
           RSub(male_monthly_contribution,
                final_discussion.male_monthly_contribution)
    /\ female_monthly_contribution' =
           RSub(female_monthly_contribution,
                final_discussion.female_monthly_contribution)

C20_GoalNamesUnique ==
    \A i \in 1..Len(goals) : \A j \in 1..Len(goals) :
        goals[i].name = goals[j].name => i = j

\* C21: every goal of the store has a target above zero and a corpus of at
\* least zero: a commit with a zero or negative target stores no goal.
C21_TargetsPositive ==
    \A i \in 1..Len(goals) :
        /\ RLt(Zero, goals[i].target_amount)
        /\ RLe(Zero, goals[i].current_corpus)

\* the last call was an analysis that returned its report
AnalysisDone ==
    /\ lastCall.op = "analyze_contribution_change"
    /\ lastCall.result.status = "REPORT"

PermanentRaiseDone ==
    /\ AnalysisDone
    /\ lastCall.args[1] = Rat(15, 100)
    /\ lastCall.args[3] = << >>

\* the share of the partner the analysis changes
ShareOf(goal, gender) ==
    IF Lower(gender) = "male" THEN goal.male_monthly_contribution
    ELSE goal.female_monthly_contribution

\* the line of goal i says the goal is reached faster, slower or the same
Reports(i, impact) ==
    /\ lastCall.result.results[i].kind = "impact"
    /\ lastCall.result.results[i].impact = impact

C22_FasterWhereContributing ==
    PermanentRaiseDone =>
        \A i \in 1..Len(goals) :
            /\ RLt(Zero, goals[i].total_monthly_contribution)
            /\ RLt(Zero, ShareOf(goals[i], lastCall.args[2]))
            => Reports(i, "faster")

C22_UnchangedWhereZeroShare ==
    PermanentRaiseDone =>
        \A i \in 1..Len(goals) :
            ShareOf(goals[i], lastCall.args[2]) = Zero
            => Reports(i, "no significant change")

\* C22: a permanent raise of 15% for one partner reports faster for every
\* goal with a positive total contribution to which that partner contributes,
\* and no significant change for every goal in which that partner's share is
\* zero.
C22_PermanentRaise ==
    C22_FasterWhereContributing /\ C22_UnchangedWhereZeroShare

\* C29: a temporary change that does not lower the contribution never
\* reports a goal as reached slower, whatever the length of the period, also
\* for a goal that is reached before the period ends.
C29_TemporaryRaiseNeverSlower ==
    /\ AnalysisDone
    /\ lastCall.args[3] # << >>
    /\ RLe(Zero, lastCall.args[1])
    => \A i \in 1..Len(goals) : ~ Reports(i, "slower")

C30_Frame ==
    UNCHANGED << goals, male_monthly_contribution, female_monthly_contribution,
                 total_monthly_contribution, final_discussion, file, ASSETS,
                 male_total, female_total >>

\* one line per stored goal, in the order of the store
C30_OneLinePerGoal(gs, result) ==
    /\ result.status = "REPORT"
    /\ Len(result.results) = Len(gs)
    /\ \A i \in 1..Len(gs) : result.results[i].goal_name = gs[i].name

C30_Reported(gs, call) ==
    IF Lower(call.args[2]) \in { "male", "female" }
    THEN C30_OneLinePerGoal(gs, call.result)
    ELSE call.result.status = "ERROR"

C23_LoadedGoalsAreKept ==
    /\ lastCall.op = "__init__"
    /\ file.kind = "json"
    /\ Len(file.doc) >= 1
    => goals = JsonLoad(file)

C24_BootstrapPersisted ==
    lastCall.op = "__init__" /\ file.kind = "json" => JsonLoad(file) = goals

C24_RedistributionPersisted ==
    ProposeDone /\ lastCall.redistributed /\ file.kind = "json"
    => JsonLoad(file) = goals

C24_CommitPersisted ==
    Created /\ lastCall.write_ok => file = JsonDump(goals)

\* C24: after the bootstrap, after a redistributing proposal and after a
\* commit, each with a writer that works, the document holds the goals of the
\* store.
C24_PersistedAfterEveryMutation ==
    /\ C24_BootstrapPersisted
    /\ C24_RedistributionPersisted
    /\ C24_CommitPersisted

\* C27: a proposal that returns an error leaves the goals, both trackers
\* and the staged discussion as they were, also over a fully pledged pool.
C27_FailedProposalChangesNothing ==
    [][ProposeDone' /\ lastCall'.result.status = "ERROR"
       => UNCHANGED << goals, male_monthly_contribution,
                       female_monthly_contribution, final_discussion >>]_vars

\* C28: the goal a commit stores has the target of the proposal that staged
\* it: a commit right after a successful proposal stores that proposal's target.
C28_CommittedTargetIsProposedTarget ==
    [][/\ ProposeDone
       /\ lastCall.result.status = "SUCCESS"
       /\ Created'
       => goals'[Len(goals')].target_amount = lastCall.args[3]]_vars

\* the names of the schemes a couple holds
C26_HeldBy(couple) ==
    { couple[1][i].longName : i \in 1..Len(couple[1]) }
    \cup { couple[2][i].longName : i \in 1..Len(couple[2]) }

\* every name of the list is held by the couple and is listed once
C26_OwnOnce(names, couple) ==
    /\ \A i \in 1..Len(names) : names[i] \in C26_HeldBy(couple)
    /\ \A i \in 1..Len(names) : \A j \in 1..Len(names) :
           names[i] = names[j] => i = j

\* C26: constructing a second engine instance leaves the first instance's
\* held-instrument lists, goals, trackers and staged discussion as they
\* were, and the new instance's held-instrument lists hold only the holdings
\* of its own couple, each once.
C26_InstancesShareNothing ==
    [][lastCall'.op = "other.__init__"
       => /\ UNCHANGED << ASSETS, goals, male_monthly_contribution,
                          female_monthly_contribution,
                          total_monthly_contribution, final_discussion >>
          /\ \A i \in 1..Len(lastCall'.ASSETS) :
                /\ C26_OwnOnce(lastCall'.ASSETS[i].male_existing_options,
                               lastCall'.couple)
                /\ C26_OwnOnce(lastCall'.ASSETS[i].female_existing_options,
                               lastCall'.couple)]_vars

C25_BothDone ==
    /\ lastCall.op = "concurrent"
    /\ \A t \in ThreadIds : lastCall.calls[t].pc = "done"

\* the engine after one whole call made on the engine o
C25_Then(o, args) ==
    StageGoal(o.goals, o.male, o.female, o.fd, ASSETS, args[1], args[2], args[3])

\* goals and trackers after the call x and then the call y
C25_Serial(before, x, y) ==
    << C25_Then(C25_Then(before, x), y).goals,
       C25_Then(C25_Then(before, x), y).male,
       C25_Then(C25_Then(before, x), y).female >>

\* C25: two proposals made concurrently against one engine leave the goals
\* and the trackers that one of the two serial orders of the calls leaves: no
\* interleaving redistributes the same fully pledged pool twice.
C25_ConcurrentProposalsSerialize ==
    C25_BothDone =>
        << goals, male_monthly_contribution, female_monthly_contribution >> \in
            { C25_Serial(lastCall.before, lastCall.calls[1].args,
                         lastCall.calls[2].args),
              C25_Serial(lastCall.before, lastCall.calls[2].args,
                         lastCall.calls[1].args) }

====
